---- MODULE Spec2Model ----
(***************************************************************************)
(* Alerting subsystem of the CoreWeave profitability monitor               *)
(* (src/alerts/alert_system.py over src/storage/data_manager.py).          *)
(*                                                                         *)
(* Units.  Time is counted in hours, so timedelta(days = n) is 24 * n.     *)
(* Prices, yields and rates are integers in the smallest unit of the       *)
(* indicator (cents, basis points); a quotient the code computes in        *)
(* floating point is kept as an exact fraction <<numerator, denominator>>, *)
(* and round(x, 1) yields tenths.  Binary rounding error of the floats is  *)
(* not represented.                                                        *)
(***************************************************************************)
EXTENDS Integers, Sequences, FiniteSets, TLC

VARIABLES
    now,                  \* datetime.now() / SQLite 'now', in hours
    gpu_pricing,          \* table gpu_pricing          (rows in insertion order)
    treasury_yields,      \* table treasury_yields
    energy_futures,       \* table energy_futures
    interest_rates,       \* table interest_rates
    sec_filings,          \* table sec_filings
    hardware_news,        \* table hardware_news
    energy_market_events, \* table energy_market_events
    alerts,               \* table alerts
    rules,                \* AlertSystem.rules
    pc,                   \* position inside check_all_rules
    idx,                  \* check_all_rules: position of the for loop in rules
    triggered_alerts,     \* check_all_rules: the list it builds and returns
    calls,                \* conditions invoked by the running call, with what each gave
    cycles,               \* calls of check_all_rules started so far
    notification_channels, \* AlertSystem.notification_channels
    batch,                \* send_notifications: its argument alerts
    sn,                   \* position inside send_notifications
    ch,                   \* send_notifications: position of the for loop in the channels
    notified,             \* channels invoked by the running send_notifications
    mc,                   \* position inside run_monitoring_cycle
    gathering,            \* the collector that awaits its fetches, "none" if none does
    results,              \* asyncio.gather: what each fetch gave, in task order
    collected,            \* what the collector returned
    time_series,          \* what prepare_time_series_data returned last
    gpu_correlations,     \* what analyze_gpu_price_correlations returned last
    correlation_analysis, \* table correlation_analysis
    ac,                   \* how the last analyze_profitability_indicators ended
    analyses,             \* the days_back of every analyze_profitability_indicators call so far
    correlation,          \* a correlation coefficient whose strength is asked for
    strength,             \* what _interpret_correlation_strength returned for it
    correlations,         \* what calculate_correlations returned last
    key_insights,         \* what _generate_insights returned last
    risk_factors,         \* what _identify_risk_factors returned last
    data_period,          \* data_period of the analysis returned last
    snapshot,             \* analyze_profitability_indicators: its table data while it runs
    fc,                   \* position inside run_full_collection_cycle
    task,                 \* run_full_collection_cycle: position of the for loop in collection_tasks
    cycle_results,        \* run_full_collection_cycle: its dictionary results, in insertion order
    mm,                   \* position inside run_monitoring_mode
    loops,                \* run_monitoring_mode: passes of its while loop started so far
    sleeping              \* run_monitoring_mode: seconds of the asyncio.sleep it awaits, 0 if none

tables == <<gpu_pricing, treasury_yields, energy_futures, interest_rates,
            sec_filings, hardware_news, energy_market_events>>

vars == <<now, gpu_pricing, treasury_yields, energy_futures, interest_rates,
          sec_filings, hardware_news, energy_market_events, alerts, rules,
          pc, idx, triggered_alerts, calls, cycles,
          notification_channels, batch, sn, ch, notified, mc,
          gathering, results, collected,
          time_series, gpu_correlations, correlation_analysis, ac, analyses,
          correlation, strength,
          correlations, key_insights, risk_factors, data_period, snapshot,
          fc, task, cycle_results, mm, loops, sleeping>>

notifier == <<notification_channels, batch, sn, ch, notified, mc>>

collection == <<gathering, results, collected>>

(* The parts of an analysis beside the primary correlations *)
report == <<correlations, key_insights, risk_factors, data_period, snapshot>>

analysis == <<time_series, gpu_correlations, correlation_analysis, ac, analyses,
              correlation, strength, report>>

(* What the rule engine and the notifier leave alone *)
(* The platform's run loop and its collection cycle *)
loop == <<mm, loops, sleeping>>

orchestrator == <<fc, task, cycle_results, loop>>

beside_monitor == <<collection, analysis, orchestrator>>

(* What the rule engine's own steps leave alone *)
beside_engine == <<notifier, beside_monitor>>

----------------------------------------------------------------------------
(* Bounds of the model *)

\* rows of treasury_yields, energy_futures, interest_rates
MaxRows == 3
\* rows of gpu_pricing
MaxGpuRows == 3
\* rows of gpu_pricing when every price is a 100 or a 120
MaxSpikeRows == 4
\* add_rule calls after construction
MaxCustomRules == 2
\* calls of check_all_rules
MaxCycles == 1
\* days the clock advances
MaxTicks == 1
\* notification channels registered
MaxChannels == 2
\* steps between correlation 0 and 1
Resolution == 10000
\* calls of analyze_profitability_indicators
MaxAnalyses == 2
\* rows of sec_filings, hardware_news, energy_market_events
MaxPresenceRows == 2
\* passes of the loop of run_monitoring_mode
MaxLoops == 2

(* Program constants *)

\* AlertRule.last_triggered = None
NoneTime == -1
\* change_percent > 15
GpuSpikeThreshold == 15
\* abs(change_bps) > 20
YieldSpikeThreshold == 20
\* abs(change_percent) > 10
GasSpikeThreshold == 10
\* days_back of each default condition
GpuDaysBack == 2
YieldDaysBack == 2
GasDaysBack == 2
FedDaysBack == 7
FilingDaysBack == 1
NewsDaysBack == 1
EventDaysBack == 1

\* timedelta(days = n), datetime('now', '-n days')
days(n) == 24 * n

\* the clock when the engine is constructed
Today == days(10)

----------------------------------------------------------------------------
(* Sequences and data frames *)

Range(s) == {s[k] : k \in DOMAIN s}

SeqsUpTo(S, n) == UNION {[1..k -> S] : k \in 0..n}

(* The orderings of the rows of s in which keys, one integer per row, ascend;
   rows of equal key come in any order *)
RECURSIVE index_orders(_, _)
index_orders(keys, I) ==
    IF I = {} THEN {<<>>}
    ELSE LET least == {i \in I : \A j \in I : keys[i] <= keys[j]}
         IN  UNION {{<<i>> \o rest : rest \in index_orders(keys, I \ {i})} : i \in least}

order_by(s, keys) ==
    {[k \in DOMAIN s |-> s[o[k]]] : o \in index_orders(keys, DOMAIN s)}

(* Variant of select_recent: no WHERE clause *)
select_whole(table, days_back) ==
    order_by(table, [k \in DOMAIN table |-> -table[k].timestamp])

(* SELECT ... WHERE timestamp >= datetime('now', '-N days') ORDER BY timestamp
   DESC: the frames the query may return; rows of equal timestamp come in any
   order. *)
select_recent(table, days_back) ==
    LET hit(r) == r.timestamp >= now - days(days_back)
        rows == SelectSeq(table, hit)
    IN  order_by(rows, [k \in DOMAIN rows |-> -rows[k].timestamp])

(* DataFrame.sort_values('timestamp'): the default sort is not stable, rows of
   equal timestamp come in any order. *)
sort_values(df) == order_by(df, [k \in DOMAIN df |-> df[k].timestamp])

(* Series.unique(): the values in order of first appearance *)
RECURSIVE unique(_)
unique(s) ==
    IF s = <<>> THEN <<>>
    ELSE LET h == Head(s)
             keep(x) == x # h
         IN  <<h>> \o unique(SelectSeq(Tail(s), keep))

iloc(df, k) == IF k < 0 THEN df[Len(df) + 1 + k] ELSE df[k + 1]

----------------------------------------------------------------------------
(* Numbers *)

abs(x) == IF x < 0 THEN -x ELSE x

(* a / b * 100 as an exact fraction, b > 0 *)
percent(a, b) == <<a * 100, b>>

at_least(q, k) == q[1] >= k * q[2]

greater(q, k) == q[1] > k * q[2]

absq(q) == <<abs(q[1]), q[2]>>

(* round(q, 1) in tenths: nearest, ties to even *)
round1(q) ==
    LET n == 10 * q[1]
        d == q[2]
        f == n \div d
        r == n - f * d
    IN  IF 2 * r < d THEN f
        ELSE IF 2 * r > d THEN f + 1
        ELSE IF f % 2 = 0 THEN f ELSE f + 1

(* Python truth value of a number *)
truthy(x) == x # 0

----------------------------------------------------------------------------
(* What a condition gives: None, a dict, or an exception *)

None == [tag |-> "none"]

Raised == [tag |-> "raise"]

Dict(d) == [tag |-> "dict", data |-> d]

(* if result: *)
non_empty(result) == result.tag = "dict" /\ DOMAIN result.data # {}

----------------------------------------------------------------------------
(* The default conditions, each on the frame it has read and sorted *)

gpu_data(df, gpu_model) ==
    LET same(r) == r.gpu_model = gpu_model
    IN  SelectSeq(df, same)

RECURSIVE first_spike(_, _)
first_spike(df, models) ==
    IF models = <<>> THEN None
    ELSE LET g == gpu_data(df, Head(models))
         IN  IF Len(g) < 2 THEN first_spike(df, Tail(models))
             ELSE LET recent_price == iloc(g, -1).price
                      previous_price == iloc(g, -2).price
                  IN  IF previous_price > 0
                         /\ greater(percent(recent_price - previous_price, previous_price),
                                    GpuSpikeThreshold)
                      THEN Dict([change |-> round1(percent(recent_price - previous_price,
                                                           previous_price)),
                                 period |-> 24,
                                 price |-> recent_price,
                                 gpu_model |-> Head(models)])
                      ELSE first_spike(df, Tail(models))

gpu_models_latest_first(df) ==
    unique([k \in DOMAIN df |-> df[Len(df) + 1 - k].gpu_model])

gpu_models(df) == unique([k \in DOMAIN df |-> df[k].gpu_model])

check_gpu_price_spike(df) ==
    IF df = <<>> THEN None ELSE first_spike(df, gpu_models(df))

check_treasury_yield_spike(df) ==
    IF Len(df) < 2 THEN None
    ELSE LET current_yield == iloc(df, -1).yield_10y
             previous_yield == iloc(df, -2).yield_10y
             change_bps == current_yield - previous_yield
         IN  IF truthy(current_yield) /\ truthy(previous_yield)
                /\ abs(change_bps) > YieldSpikeThreshold
             THEN Dict([change |-> 10 * change_bps, current |-> current_yield])
             ELSE None

check_natural_gas_spike(df) ==
    IF Len(df) < 2 THEN None
    ELSE LET current_price == iloc(df, -1).natural_gas_price
             previous_price == iloc(df, -2).natural_gas_price
         IN  IF truthy(current_price) /\ truthy(previous_price) /\ previous_price > 0
                /\ greater(absq(percent(current_price - previous_price, previous_price)),
                           GasSpikeThreshold)
             THEN Dict([change |-> round1(percent(current_price - previous_price,
                                                  previous_price)),
                        price |-> current_price])
             ELSE None

check_fed_rate_rise(df) ==
    IF Len(df) < 2 THEN None
    ELSE LET current_rate == iloc(df, -1).fed_funds_rate
             previous_rate == iloc(df, -2).fed_funds_rate
         IN  IF current_rate > previous_rate
             THEN Dict([rate |-> current_rate, change |-> current_rate - previous_rate])
             ELSE None

check_fed_rate_change(df) ==
    IF Len(df) < 2 THEN None
    ELSE LET current_rate == iloc(df, -1).fed_funds_rate
             previous_rate == iloc(df, -2).fed_funds_rate
         IN  IF current_rate # previous_rate
             THEN Dict([rate |-> current_rate, change |-> current_rate - previous_rate])
             ELSE None

(* company LIKE '%CoreWeave%' *)
like_coreweave(company) == company \in {"CoreWeave", "CoreWeave Inc"}

(* SELECT ... FROM sec_filings WHERE filing_date >= datetime('now', '-N days')
   AND company LIKE ? ORDER BY filing_date DESC *)
get_sec_filings(days_back) ==
    LET hit(r) == r.filing_date >= now - days(days_back) /\ like_coreweave(r.company)
        rows == SelectSeq(sec_filings, hit)
    IN  order_by(rows, [k \in DOMAIN rows |-> -rows[k].filing_date])

(* strftime('%Y-%m-%d') *)
strftime_date(t) == t \div 24

check_new_sec_filing(df) ==
    LET fresh(r) == r.filing_date >= now - days(1)
        recent_filings == SelectSeq(df, fresh)
    IN  IF recent_filings = <<>> THEN None
        ELSE LET filing == iloc(recent_filings, 0)
             IN  Dict([filing_type |-> filing.filing_type,
                       company |-> filing.company,
                       date |-> strftime_date(filing.filing_date)])

(* Variant of check_gpu_supply_constraint: any news row is a constraint *)
check_any_supply_status(df) ==
    IF df = <<>> THEN None
    ELSE LET news == iloc(df, 0)
         IN  Dict([hardware_type |-> news.hardware_type,
                   status |-> news.supply_status])

check_gpu_supply_constraint(df) ==
    LET constrained(r) == r.supply_status \in {"shortage", "delayed"}
        constraint_news == SelectSeq(df, constrained)
    IN  IF constraint_news = <<>> THEN None
        ELSE LET news == iloc(constraint_news, 0)
             IN  Dict([hardware_type |-> news.hardware_type,
                       status |-> news.supply_status])

(* SELECT ... WHERE timestamp >= datetime('now', '-N days') AND impact_level = ? *)
get_energy_events(days_back, impact_level) ==
    LET hit(r) == r.timestamp >= now - days(days_back) /\ r.impact_level = impact_level
        rows == SelectSeq(energy_market_events, hit)
    IN  order_by(rows, [k \in DOMAIN rows |-> -rows[k].timestamp])

check_energy_market_event(df) ==
    IF df = <<>> THEN None
    ELSE LET event == iloc(df, 0)
         IN  Dict([event_type |-> event.event_type,
                   impact_level |-> event.impact_level,
                   regions |-> IF event.affected_regions # ""
                               THEN event.affected_regions ELSE "Unknown"])

(* What a condition that is not one of the seven defaults may give *)
CustomResults ==
    {None, Raised, Dict(<<>>), Dict([value |-> 1]), Dict([value |-> 1, unit |-> 2])}

(* df = get_...(days_back) followed by df.sort_values('timestamp'): the frames
   the condition may go on with.  Every frame the query may return holds the
   same rows, so sorting any one of them gives all of these. *)
read_sorted(table, days_back) ==
    sort_values(CHOOSE df \in select_recent(table, days_back) : TRUE)

(* rule.condition(): everything the call may give in the current state *)
condition(rule) ==
    CASE rule.condition = "gpu_price_spike" ->
            {check_gpu_price_spike(df) : df \in read_sorted(gpu_pricing, GpuDaysBack)}
      [] rule.condition = "treasury_yield_spike" ->
            {check_treasury_yield_spike(df) : df \in read_sorted(treasury_yields, YieldDaysBack)}
      [] rule.condition = "natural_gas_spike" ->
            {check_natural_gas_spike(df) : df \in read_sorted(energy_futures, GasDaysBack)}
      [] rule.condition = "fed_rate_change" ->
            {check_fed_rate_change(df) : df \in read_sorted(interest_rates, FedDaysBack)}
      [] rule.condition = "new_sec_filing" ->
            {check_new_sec_filing(df) : df \in get_sec_filings(FilingDaysBack)}
      [] rule.condition = "gpu_supply_constraint" ->
            {check_gpu_supply_constraint(df) : df \in select_recent(hardware_news, NewsDaysBack)}
      [] rule.condition = "energy_market_event" ->
            {check_energy_market_event(df) : df \in get_energy_events(EventDaysBack, "high")}
      [] OTHER -> CustomResults

----------------------------------------------------------------------------
(* Rules *)

(* AlertRule(name, condition, severity, message_template); the template is
   kept as the set of fields it names *)
AlertRule(name, cond, severity, message_template) ==
    [name |-> name, condition |-> cond, severity |-> severity,
     message_template |-> message_template, last_triggered |-> NoneTime]

setup_default_rules ==
    << AlertRule("gpu_price_spike", "gpu_price_spike", "high",
                 {"change", "period", "price"}),
       AlertRule("treasury_yield_spike", "treasury_yield_spike", "medium",
                 {"change", "current"}),
       AlertRule("natural_gas_spike", "natural_gas_spike", "high",
                 {"change", "price"}),
       AlertRule("fed_rate_change", "fed_rate_change", "high",
                 {"rate"}),
       AlertRule("new_sec_filing", "new_sec_filing", "medium",
                 {"filing_type", "company", "date"}),
       AlertRule("gpu_supply_constraint", "gpu_supply_constraint", "high",
                 {"hardware_type", "status"}),
       AlertRule("energy_market_event", "energy_market_event", "medium",
                 {"event_type", "impact_level", "regions"}) >>

(* str.format of the template with the result's fields as keywords: KeyError
   when a field the template names is missing *)
can_format(message_template, data) == message_template \subseteq DOMAIN data

format(message_template, data) ==
    [template |-> message_template,
     fields |-> [f \in message_template |-> data[f]]]

----------------------------------------------------------------------------
(* The store's write *)

(* DataManager.create_alert: one INSERT INTO alerts; id, timestamp and resolved
   take the column defaults *)
create_alert(alert_type, message, severity, data_source) ==
    Append(alerts, [id |-> Len(alerts) + 1,
                    timestamp |-> now,
                    alert_type |-> alert_type,
                    message |-> message,
                    severity |-> severity,
                    data_source |-> data_source,
                    resolved |-> FALSE])

----------------------------------------------------------------------------
(* Operations *)

between_calls == pc \in {"idle", "returned"}

(* AlertSystem.add_rule *)
AddRule(rule) ==
    /\ between_calls
    /\ Len(rules) < Len(setup_default_rules) + MaxCustomRules
    /\ rules' = Append(rules, rule)
    /\ pc' = "idle"
    /\ UNCHANGED <<now, tables, alerts, idx, triggered_alerts, calls, cycles>>
    /\ UNCHANGED beside_engine

(* check_all_rules, entry: triggered_alerts = [] *)
check_all_rules ==
    /\ between_calls
    /\ pc' = "check"
    /\ idx' = 1
    /\ triggered_alerts' = <<>>
    /\ calls' = <<>>
    /\ cycles' = cycles + 1
    /\ UNCHANGED <<now, tables, alerts, rules>>

(* A call that nothing but the bound of the model limits *)
begin_check ==
    /\ cycles < MaxCycles
    /\ check_all_rules

(* A call of check_all_rules on its own *)
BeginCheck == begin_check /\ UNCHANGED beside_engine

(* Variant of try_block: the alert is put on the list twice *)
try_block_twice(rule, result, store_ok) ==
    LET message == format(rule.message_template, result.data)
        alert == [rule_name |-> rule.name,
                  severity |-> rule.severity,
                  message |-> message,
                  timestamp |-> now,
                  data |-> result.data]
    IN  IF non_empty(result) /\ can_format(rule.message_template, result.data)
        THEN [triggered |-> Append(Append(triggered_alerts, alert), alert),
              alerts |-> IF store_ok
                         THEN create_alert(rule.name, message, rule.severity, "alert_system")
                         ELSE alerts,
              last_triggered |-> IF store_ok THEN now ELSE rule.last_triggered,
              raised |-> ~store_ok]
        ELSE [triggered |-> triggered_alerts,
              alerts |-> alerts,
              last_triggered |-> rule.last_triggered,
              raised |-> result.tag = "raise" \/ non_empty(result)]

(* Variant of try_block: the alert is put on the list before its message is
   rendered *)
try_block_append_first(rule, result, store_ok) ==
    LET message == format(rule.message_template, result.data)
        alert == [rule_name |-> rule.name,
                  severity |-> rule.severity,
                  message |-> message,
                  timestamp |-> now,
                  data |-> result.data]
        unrendered == [rule_name |-> rule.name,
                       severity |-> rule.severity,
                       timestamp |-> now,
                       data |-> result.data]
    IN  IF non_empty(result) /\ can_format(rule.message_template, result.data)
        THEN [triggered |-> Append(triggered_alerts, alert),
              alerts |-> IF store_ok
                         THEN create_alert(rule.name, message, rule.severity, "alert_system")
                         ELSE alerts,
              last_triggered |-> IF store_ok THEN now ELSE rule.last_triggered,
              raised |-> ~store_ok]
        ELSE [triggered |-> IF non_empty(result)
                            THEN Append(triggered_alerts, unrendered)
                            ELSE triggered_alerts,
              alerts |-> alerts,
              last_triggered |-> rule.last_triggered,
              raised |-> result.tag = "raise" \/ non_empty(result)]

(* check_all_rules, the try block of one pass of "for rule in self.rules",
   from the value of rule.condition() on: what it leaves in triggered_alerts,
   in the alerts table and in rule.last_triggered, and whether it ended in an
   exception (the condition raised, the template named a missing field, or
   create_alert raised: store_ok is whether create_alert returns). *)
try_block(rule, result, store_ok) ==
    LET message == format(rule.message_template, result.data)
        alert == [rule_name |-> rule.name,
                  severity |-> rule.severity,
                  message |-> message,
                  timestamp |-> now,
                  data |-> result.data]
    IN  IF non_empty(result) /\ can_format(rule.message_template, result.data)
        THEN [triggered |-> Append(triggered_alerts, alert),
              alerts |-> IF store_ok
                         THEN create_alert(rule.name, message, rule.severity, "alert_system")
                         ELSE alerts,
              last_triggered |-> IF store_ok THEN now ELSE rule.last_triggered,
              raised |-> ~store_ok]
        ELSE [triggered |-> triggered_alerts,
              alerts |-> alerts,
              last_triggered |-> rule.last_triggered,
              raised |-> result.tag = "raise" \/ non_empty(result)]

(* Variant of except_Exception: the exception leaves check_all_rules *)
except_reraise(raised) == IF raised THEN "raised" ELSE "check"

(* "except Exception as e: print(...)": the exception ends here and the call
   goes on *)
except_Exception(raised) == "check"

(* Variant of next_rule: the loop ends with the first alert *)
next_rule_break(i, fired) == IF fired THEN Len(rules) + 1 ELSE i + 1

(* "for rule in self.rules": the pass after pass i, whatever pass i did *)
next_rule(i, fired) == i + 1

(* Variant of written: the timestamp of a firing is shared by all rules *)
written_to_all(i, last_triggered) ==
    [k \in DOMAIN rules |->
        [rules[k] EXCEPT !.last_triggered =
            IF last_triggered # rules[i].last_triggered THEN last_triggered ELSE @]]

(* rule.last_triggered = ... on the rule of pass i: the registry after it *)
written(i, last_triggered) == [rules EXCEPT ![i].last_triggered = last_triggered]

CheckRule ==
    /\ pc = "check"
    /\ idx <= Len(rules)
    /\ \E result \in condition(rules[idx]), store_ok \in BOOLEAN :
          LET out == try_block(rules[idx], result, store_ok)
          IN  /\ calls' = Append(calls, [rule |-> idx, result |-> result])
              /\ triggered_alerts' = out.triggered
              /\ alerts' = out.alerts
              /\ rules' = written(idx, out.last_triggered)
              /\ pc' = except_Exception(out.raised)
              /\ idx' = next_rule(idx, Len(out.triggered) > Len(triggered_alerts))
    /\ UNCHANGED <<now, tables, cycles>>
    /\ UNCHANGED beside_engine

(* check_all_rules: return triggered_alerts *)
ReturnCheck ==
    /\ pc = "check"
    /\ idx > Len(rules)
    /\ pc' = "returned"
    /\ UNCHANGED <<now, tables, alerts, rules, idx, triggered_alerts, calls, cycles>>
    /\ UNCHANGED beside_engine

(* A day passes between two calls *)
Tick ==
    /\ between_calls
    /\ now < Today + days(MaxTicks)
    /\ now' = now + days(1)
    /\ pc' = "idle"
    /\ UNCHANGED <<tables, alerts, rules, idx, triggered_alerts, calls, cycles>>
    /\ UNCHANGED beside_engine

----------------------------------------------------------------------------
(* Notifications and the monitoring cycle *)

engine == <<now, tables, alerts, rules, pc, idx, triggered_alerts, calls, cycles>>

(* AlertSystem.add_notification_channel *)
AddNotificationChannel(channel) ==
    /\ sn \in {"idle", "returned"}
    /\ mc \in {"idle", "returned"}
    /\ Len(notification_channels) < MaxChannels
    /\ notification_channels' = Append(notification_channels, channel)
    /\ sn' = "idle"
    /\ mc' = "idle"
    /\ UNCHANGED <<engine, beside_monitor, batch, ch, notified>>

(* send_notifications, entry: "if not alerts: return", else the for loop
   starts *)
send_notifications(events) ==
    /\ batch' = events
    /\ notified' = <<>>
    /\ ch' = 1
    /\ sn' = IF events = <<>> THEN "returned" ELSE "loop"

(* A call of send_notifications on its own *)
SendNotifications(events) ==
    /\ sn \in {"idle", "returned"}
    /\ mc \in {"idle", "returned"}
    /\ send_notifications(events)
    /\ mc' = "idle"
    /\ UNCHANGED <<engine, beside_monitor, notification_channels>>

(* Variant of channel_except: the exception leaves send_notifications *)
channel_reraise(raised) == IF raised THEN "raised" ELSE "loop"

(* "except Exception as e: print(...)" around "await channel(alerts)" *)
channel_except(raised) == "loop"

(* Variant of next_channel: the loop ends with the first channel that raises *)
next_channel_break(i, raised) == IF raised THEN Len(notification_channels) + 1 ELSE i + 1

(* "for channel in self.notification_channels": the pass after pass i *)
next_channel(i, raised) == i + 1

(* One pass of the loop: await channel(alerts), which returns or raises *)
Notify ==
    /\ sn = "loop"
    /\ ch <= Len(notification_channels)
    /\ \E raised \in BOOLEAN :
          /\ notified' = Append(notified, [channel |-> ch, alerts |-> batch, raised |-> raised])
          /\ sn' = channel_except(raised)
          /\ ch' = next_channel(ch, raised)
    /\ UNCHANGED <<engine, beside_monitor, notification_channels, batch, mc>>

(* send_notifications is over: the loop is exhausted, or an exception left
   it; inside run_monitoring_cycle this is its last statement but the return *)
ReturnNotifications ==
    /\ \/ sn = "loop" /\ ch > Len(notification_channels)
       \/ sn = "raised" /\ mc = "sending"
    /\ sn' = IF sn = "raised" THEN "raised" ELSE "returned"
    /\ mc' = IF mc = "sending"
             THEN (IF sn = "raised" THEN "raised" ELSE "returned")
             ELSE mc
    /\ UNCHANGED <<engine, beside_monitor, notification_channels, batch, ch, notified>>

(* run_monitoring_cycle, entry: triggered_alerts = await self.check_all_rules() *)
RunMonitoringCycle ==
    /\ mc \in {"idle", "returned"}
    /\ sn \in {"idle", "returned"}
    /\ begin_check
    /\ mc' = "checking"
    /\ UNCHANGED <<notification_channels, batch, sn, ch, notified, beside_monitor>>

(* run_monitoring_cycle after check_all_rules: "if triggered_alerts: await
   self.send_notifications(triggered_alerts)", else straight to the return *)
AfterCheck ==
    /\ mc = "checking"
    /\ pc \in {"returned", "raised"}
    /\ IF pc = "raised"
       THEN mc' = "raised" /\ UNCHANGED <<batch, sn, ch, notified>>
       ELSE IF triggered_alerts # <<>>
            THEN mc' = "sending" /\ send_notifications(triggered_alerts)
            ELSE mc' = "returned" /\ UNCHANGED <<batch, sn, ch, notified>>
    /\ UNCHANGED <<engine, beside_monitor, notification_channels>>

----------------------------------------------------------------------------
(* Collection: the fetches that are issued together and awaited as a group *)

beside_collection == <<engine, notifier, analysis, orchestrator>>

(* The tasks of each gather, in the order they are handed to asyncio.gather *)
tasks(collector) ==
    CASE collector = "financial" -> <<"treasury_yields", "energy_futures", "interest_rates">>
      [] collector = "news" -> <<"hardware_news", "energy_events">>
      [] collector = "gpu" -> <<"lambda_labs", "coreweave">>

Pending == [tag |-> "pending"]

List(rows) == [tag |-> "list", rows |-> rows]

(* isinstance(result, Exception) *)
isinstance_Exception(result) == result = Raised

(* What a fetch may give when it is over: a list, empty or not, or an
   exception *)
Fetched(source) == {List(<<>>), List(<<source>>), Raised}

(* tasks = [...]; asyncio.gather of the tasks: every fetch is started *)
StartGather(collector) ==
    /\ gathering = "none"
    /\ gathering' = collector
    /\ results' = [k \in DOMAIN tasks(collector) |-> Pending]
    /\ collected' = None
    /\ UNCHANGED beside_collection

(* One of the running fetches ends, in any order, whatever the others did *)
FinishFetch(k) ==
    /\ gathering # "none"
    /\ k \in DOMAIN results
    /\ results[k] = Pending
    /\ \E result \in Fetched(tasks(gathering)[k]) :
          results' = [results EXCEPT ![k] = result]
    /\ UNCHANGED <<gathering, collected, beside_collection>>

(* Variant of gather: return_exceptions=False, the first exception in task
   order is raised to the caller *)
gather_raise(done) == IF \E k \in DOMAIN done : done[k] = Raised THEN Raised ELSE List(done)

(* await asyncio.gather, return_exceptions=True: the results in task
   order, an exception standing where its fetch failed *)
gather(done) == List(done)

(* results[k] if not isinstance(results[k], Exception) else [] *)
or_empty(result) == IF isinstance_Exception(result) THEN <<>> ELSE result.rows

(* collect_gpu_pricing: the sources whose result is processed,
   "if not isinstance(result, Exception) and result"; the model keeps the
   sources it prints *)
RECURSIVE processed(_, _)
processed(done, k) ==
    IF k > Len(done) THEN <<>>
    ELSE IF ~isinstance_Exception(done[k]) /\ done[k].rows # <<>>
         THEN <<tasks("gpu")[k]>> \o processed(done, k + 1)
         ELSE processed(done, k + 1)

(* What the collector returns once gather has *)
returned(collector, gathered) ==
    CASE collector = "financial" ->
            IF gathered = Raised THEN Raised
            ELSE Dict([treasury_yields |-> or_empty(gathered.rows[1]),
                       energy_futures |-> or_empty(gathered.rows[2]),
                       interest_rates |-> or_empty(gathered.rows[3])])
      [] collector = "news" ->
            IF gathered = Raised THEN Raised
            ELSE Dict([hardware_news |-> or_empty(gathered.rows[1]),
                       energy_events |-> or_empty(gathered.rows[2])])
      [] collector = "gpu" ->
            IF gathered = Raised
            THEN Dict([gpu_pricing |-> <<>>, status |-> "error", printed |-> <<>>])
            ELSE Dict([gpu_pricing |-> <<>>, status |-> "success",
                       printed |-> processed(gathered.rows, 1)])

(* gather is over when every fetch is; the collector builds its result *)
ReturnGather ==
    /\ gathering # "none"
    /\ \A k \in DOMAIN results : results[k] # Pending
    /\ collected' = [collector |-> gathering, value |-> returned(gathering, gather(results))]
    /\ gathering' = "none"
    /\ UNCHANGED <<results, beside_collection>>

----------------------------------------------------------------------------
(* The run loop: one collection cycle is the four collection steps, one
   after the other, and then the monitoring cycle *)

(* CoreWeaveProfitabilityMonitor.__init__: the console sink is registered *)
Construct ==
    /\ mm = "none"
    /\ notification_channels = <<>>
    /\ notification_channels' = Append(notification_channels, "console")
    /\ mm' = "idle"
    /\ UNCHANGED <<engine, collection, analysis, batch, sn, ch, notified, mc,
                   fc, task, cycle_results, loops, sleeping>>

(* collection_tasks: the name of each step and the collector it awaits *)
collection_tasks ==
    << [name |-> "gpu_pricing", collector |-> "gpu"],
       [name |-> "financial_data", collector |-> "financial"],
       [name |-> "sec_filings", collector |-> "sec"],
       [name |-> "news_data", collector |-> "news"] >>

(* The row a store_* method inserts for one fetched item; its timestamp is
   that of the item, which is made when it is fetched *)
inserted(source) ==
    CASE source = "treasury_yields" -> [timestamp |-> now, yield_10y |-> 4]
      [] source = "energy_futures" ->
            [timestamp |-> now, natural_gas_price |-> 3, crude_oil_price |-> 2]
      [] source = "interest_rates" -> [timestamp |-> now, fed_funds_rate |-> 5]
      [] source = "sec_filings" ->
            [filing_date |-> now, company |-> "CoreWeave", filing_type |-> "8-K"]
      [] source = "hardware_news" ->
            [timestamp |-> now, hardware_type |-> "H100", supply_status |-> "shortage"]
      [] source = "energy_events" ->
            [timestamp |-> now, event_type |-> "storm", impact_level |-> "high",
             affected_regions |-> "Texas"]

(* "if items: self.data_manager.store_...(items)": the table after it, and
   whether the insert raised; nothing is called once an earlier store of the
   same collector has raised *)
store(table, items, ok, raised_before) ==
    IF raised_before \/ items = <<>> THEN [table |-> table, raised |-> raised_before]
    ELSE IF ok THEN [table |-> table \o [k \in DOMAIN items |-> inserted(items[k])],
                     raised |-> FALSE]
         ELSE [table |-> table, raised |-> TRUE]

(* "except Exception as e: ... return {..., 'status': 'error'}" of a collector *)
status_of(raised) == IF raised THEN "error" ELSE "success"

(* run_full_collection_cycle, entry: results = {} and the for loop starts *)
run_full_collection_cycle ==
    /\ fc \in {"idle", "returned", "raised"}
    /\ gathering = "none"
    /\ mc \in {"idle", "returned", "raised"}
    /\ fc' = "collecting"
    /\ task' = 1
    /\ cycle_results' = <<>>

(* Single run mode: await monitor.run_full_collection_cycle() *)
RunFullCollectionCycle ==
    /\ mm = "idle"
    /\ fc = "idle"
    /\ run_full_collection_cycle
    /\ UNCHANGED <<engine, notifier, collection, analysis, loop>>

(* "result = await task" of a collector that gathers its fetches *)
AwaitCollector ==
    /\ fc = "collecting"
    /\ task <= Len(collection_tasks)
    /\ collection_tasks[task].collector # "sec"
    /\ StartGather(collection_tasks[task].collector)

(* collect_gpu_pricing, collect_financial_data, collect_news_data once their
   gather is over: what came is stored, and the status is put in results *)
Collect ==
    /\ fc = "collecting"
    /\ gathering # "none"
    /\ \A k \in DOMAIN results : results[k] # Pending
    /\ \E ok \in [1..3 -> BOOLEAN] :
          LET value == returned(gathering, gather(results))
              data == value.data
              treasury == IF gathering = "financial"
                          THEN store(treasury_yields, data.treasury_yields, ok[1], FALSE)
                          ELSE [table |-> treasury_yields, raised |-> FALSE]
              energy == IF gathering = "financial"
                        THEN store(energy_futures, data.energy_futures, ok[2], treasury.raised)
                        ELSE [table |-> energy_futures, raised |-> FALSE]
              rates == IF gathering = "financial"
                       THEN store(interest_rates, data.interest_rates, ok[3], energy.raised)
                       ELSE [table |-> interest_rates, raised |-> FALSE]
              news == IF gathering = "news"
                      THEN store(hardware_news, data.hardware_news, ok[1], FALSE)
                      ELSE [table |-> hardware_news, raised |-> FALSE]
              events == IF gathering = "news"
                        THEN store(energy_market_events, data.energy_events, ok[2], news.raised)
                        ELSE [table |-> energy_market_events, raised |-> FALSE]
              status == IF gathering = "gpu" THEN data.status
                        ELSE status_of(rates.raised \/ events.raised)
          IN  /\ treasury_yields' = treasury.table
              /\ energy_futures' = energy.table
              /\ interest_rates' = rates.table
              /\ hardware_news' = news.table
              /\ energy_market_events' = events.table
              /\ collected' = [collector |-> gathering, value |-> value]
              /\ cycle_results' = Append(cycle_results,
                                         [name |-> collection_tasks[task].name,
                                          status |-> status])
    /\ gathering' = "none"
    /\ task' = task + 1
    /\ UNCHANGED <<now, gpu_pricing, sec_filings, alerts, rules, pc, idx,
                   triggered_alerts, calls, cycles, results, notifier, analysis, fc, loop>>

(* get_coreweave_filings: the filings it found, none when it failed *)
get_coreweave_filings == {<<>>, <<"sec_filings">>}

(* collect_sec_filings *)
CollectSecFilings ==
    /\ fc = "collecting"
    /\ task <= Len(collection_tasks)
    /\ collection_tasks[task].collector = "sec"
    /\ \E filings \in get_coreweave_filings, ok \in BOOLEAN :
          LET stored == store(sec_filings, filings, ok, FALSE)
          IN  /\ sec_filings' = stored.table
              /\ cycle_results' = Append(cycle_results,
                                         [name |-> collection_tasks[task].name,
                                          status |-> status_of(stored.raised)])
    /\ task' = task + 1
    /\ UNCHANGED <<now, gpu_pricing, treasury_yields, energy_futures, interest_rates,
                   hardware_news, energy_market_events, alerts, rules, pc, idx,
                   triggered_alerts, calls, cycles, notifier, collection, analysis, fc, loop>>

(* The for loop over collection_tasks is exhausted *)
after_collection(k) == k > Len(collection_tasks)

(* "alerts = await self.alert_system.run_monitoring_cycle()" *)
AwaitMonitoringCycle ==
    /\ fc = "collecting"
    /\ gathering = "none"
    /\ after_collection(task)
    /\ mc \in {"idle", "returned", "raised"}
    /\ check_all_rules
    /\ mc' = "checking"
    /\ fc' = "monitoring"
    /\ UNCHANGED <<notification_channels, batch, sn, ch, notified, collection,
                   analysis, task, cycle_results, loop>>

(* The monitoring cycle returned or raised: results["alerts"] is set, the
   summary is printed, which may raise, and results is returned *)
ReturnFullCycle ==
    /\ fc = "monitoring"
    /\ mc \in {"returned", "raised"}
    /\ cycle_results' = Append(cycle_results,
                               [name |-> "alerts", status |-> "unknown",
                                count |-> IF mc = "raised" THEN 0
                                          ELSE Len(triggered_alerts)])
    /\ \E printed \in BOOLEAN : fc' = IF printed THEN "returned" ELSE "raised"
    /\ UNCHANGED <<engine, notifier, collection, analysis, task, loop>>

(* interval = int(os.getenv("MONITOR_INTERVAL", "60")) *)
IntervalMinutes == 60

(* await asyncio.sleep(300) *)
RetrySeconds == 300

(* One pass of "while True" starts: await self.run_full_collection_cycle() *)
iterate ==
    /\ loops < MaxLoops
    /\ run_full_collection_cycle
    /\ mm' = "cycle"
    /\ loops' = loops + 1
    /\ sleeping' = 0
    /\ UNCHANGED <<engine, notifier, collection, analysis>>

(* Continuous mode: await monitor.run_monitoring_mode(interval_minutes) *)
RunMonitoringMode ==
    /\ mm = "idle"
    /\ fc = "idle"
    /\ iterate

(* Variant of wait_after: the loop goes on at once when a cycle raised *)
wait_after_return(position) == IF position = "returned" THEN IntervalMinutes * 60 ELSE 0

(* The seconds slept after a cycle: the interval once it returned, "except
   Exception" and the retry wait once it raised *)
wait_after(position) == IF position = "returned" THEN IntervalMinutes * 60 ELSE RetrySeconds

(* The cycle is over and the loop sleeps *)
Sleep ==
    /\ mm = "cycle"
    /\ fc \in {"returned", "raised"}
    /\ mm' = "sleep"
    /\ sleeping' = wait_after(fc)
    /\ UNCHANGED <<engine, notifier, collection, analysis, fc, task, cycle_results, loops>>

(* asyncio.sleep is over: the next pass of the loop *)
Wake ==
    /\ mm = "sleep"
    /\ iterate

(* The user interrupts the process: the loop is left wherever it stands *)
KeyboardInterrupt ==
    /\ mm \in {"cycle", "sleep"}
    /\ mm' = "stopped"
    /\ sleeping' = 0
    /\ UNCHANGED <<engine, notifier, collection, analysis, fc, task, cycle_results, loops>>

----------------------------------------------------------------------------
(* Analysis: the unified daily table.  A frame is a sequence of rows, a row
   maps the frame's columns to its cells; the cell of "date" is a day number,
   any other cell is NaN or a known number. *)

beside_analysis == <<engine, notifier, collection, orchestrator>>

NaN == <<>>

Known(v) == <<v>>

Frame(rows) == [tag |-> "frame", rows |-> rows]

(* days_back: int = 90 *)
AnalysisDaysBack == 90

(* analyze_profitability_indicators(days_back=30) *)
ReportDaysBack == 30

(* pd.to_datetime(...).dt.date *)
dt_date(t) == t \div 24

columns(df) == IF df = <<>> THEN {} ELSE DOMAIN df[1]

RECURSIVE sum(_)
sum(s) == IF s = <<>> THEN 0 ELSE Head(s) + sum(Tail(s))

(* mean of a group: of the stored prices of one day *)
mean(s) == IF s = <<>> THEN NaN ELSE Known(sum(s) \div Len(s))

RECURSIVE sorted(_)
sorted(S) ==
    IF S = {} THEN <<>>
    ELSE LET least == CHOOSE x \in S : \A y \in S : x <= y
         IN  <<least>> \o sorted(S \ {least})

(* df.groupby('date')[cols].mean().reset_index(), the columns named names:
   one row per date, in date order *)
groupby_mean(df, cols, names) ==
    LET dates == sorted({dt_date(df[k].timestamp) : k \in DOMAIN df})
        group(d) == LET on(r) == dt_date(r.timestamp) = d IN SelectSeq(df, on)
        col(c) == cols[CHOOSE i \in DOMAIN names : names[i] = c]
        cell(d, c) == mean([k \in DOMAIN group(d) |-> group(d)[k][col(c)]])
    IN  [k \in DOMAIN dates |->
            [c \in {"date"} \cup {names[i] : i \in DOMAIN names} |->
                IF c = "date" THEN dates[k] ELSE cell(dates[k], c)]]

(* pd.merge(left, right, on='date', how='outer'): the dates of both, a cell
   NaN where its frame has no row of the date *)
merge_outer(left, right) ==
    LET dates == sorted({left[k].date : k \in DOMAIN left}
                        \cup {right[k].date : k \in DOMAIN right})
        has(df, d) == \E k \in DOMAIN df : df[k].date = d
        row(df, d) == df[CHOOSE k \in DOMAIN df : df[k].date = d]
        cell(df, d, c) == IF has(df, d) THEN row(df, d)[c] ELSE NaN
    IN  [k \in DOMAIN dates |->
            [c \in columns(left) \cup columns(right) |->
                IF c = "date" THEN dates[k]
                ELSE IF c \in columns(left) THEN cell(left, dates[k], c)
                     ELSE cell(right, dates[k], c)]]

(* Variant of merged: an inner join, only the dates both frames hold *)
merged_inner(frame, daily) ==
    IF frame # <<>>
    THEN LET both(r) == \E k \in DOMAIN daily : daily[k].date = r.date
         IN  SelectSeq(merge_outer(frame, daily), both)
    ELSE daily

(* pd.merge(time_series, daily, ...) if not time_series.empty else daily *)
merged(frame, daily) == IF frame # <<>> THEN merge_outer(frame, daily) ELSE daily

(* time_series.sort_values('date') *)
sort_by_date(df) == CHOOSE sorted_df \in order_by(df, [k \in DOMAIN df |-> df[k].date]) : TRUE

RECURSIVE last_known(_, _, _)
last_known(df, k, c) ==
    IF k = 0 THEN NaN
    ELSE IF df[k][c] # NaN THEN df[k][c] ELSE last_known(df, k - 1, c)

(* Variant of fillna: method='bfill', a gap takes the next known value *)
RECURSIVE next_known(_, _, _)
next_known(df, k, c) ==
    IF k > Len(df) THEN NaN
    ELSE IF df[k][c] # NaN THEN df[k][c] ELSE next_known(df, k + 1, c)

bfill(df) ==
    [k \in DOMAIN df |->
        [c \in columns(df) |-> IF c = "date" THEN df[k].date ELSE next_known(df, k, c)]]

(* time_series.fillna(method='ffill') *)
ffill(df) ==
    [k \in DOMAIN df |->
        [c \in columns(df) |-> IF c = "date" THEN df[k].date ELSE last_known(df, k, c)]]

(* self.data_manager.get_...(days_back=days_back) *)
get_frame(table, days_back) == CHOOSE df \in select_recent(table, days_back) : TRUE

prepare_time_series_data(days_back) ==
    LET gpu == get_frame(gpu_pricing, days_back)
        treasury == get_frame(treasury_yields, days_back)
        energy == get_frame(energy_futures, days_back)
        rates == get_frame(interest_rates, days_back)
        s0 == <<>>
        s1 == IF gpu # <<>>
              THEN merged(s0, groupby_mean(gpu, <<"price">>, <<"avg_gpu_price">>))
              ELSE s0
        s2 == IF treasury # <<>>
              THEN merged(s1, groupby_mean(treasury, <<"yield_10y">>, <<"treasury_10y">>))
              ELSE s1
        s3 == IF energy # <<>>
              THEN merged(s2, groupby_mean(energy,
                                           <<"natural_gas_price", "crude_oil_price">>,
                                           <<"natural_gas_price", "crude_oil_price">>))
              ELSE s2
        s4 == IF rates # <<>>
              THEN merged(s3, groupby_mean(rates, <<"fed_funds_rate">>, <<"fed_funds_rate">>))
              ELSE s3
    IN  IF s4 # <<>> THEN ffill(sort_by_date(s4)) ELSE s4

(* Floats: nan, or a sign and a magnitude; the magnitude is num / den, or the
   square root of num / den when root *)
Float(sign, num, den, root) ==
    [nan |-> FALSE, sign |-> sign, num |-> num, den |-> den, root |-> root]

NaNFloat == [nan |-> TRUE, sign |-> 0, num |-> 0, den |-> 1, root |-> FALSE]

Zero == Float(0, 0, 1, FALSE)

One == Float(1, 1, 1, FALSE)

Thousandths(n) == Float(IF n = 0 THEN 0 ELSE 1, n, 1000, FALSE)

(* abs(x); abs(nan) is nan *)
fabs(x) == [x EXCEPT !.sign = IF x.sign = 0 THEN 0 ELSE 1]

(* x >= t / 10 for x >= 0; False for nan *)
ge_tenths(x, t) ==
    /\ ~x.nan
    /\ IF x.root THEN 100 * x.num >= t * t * x.den ELSE 10 * x.num >= t * x.den

(* p_value < 0.05; False for nan *)
lt_005(x) == ~x.nan /\ ~x.root /\ 100 * x.sign * x.num < 5 * x.den

(* Variant of interpret_correlation_strength: exclusive lower boundaries *)
interpret_strictly_above(x) ==
    LET above(t) ==
            /\ ~x.nan
            /\ IF x.root THEN 100 * x.num > t * t * x.den ELSE 10 * x.num > t * x.den
    IN  IF above(7) THEN "strong"
        ELSE IF above(3) THEN "moderate"
        ELSE IF above(1) THEN "weak"
        ELSE "very_weak"

interpret_correlation_strength(x) ==
    IF ge_tenths(x, 7) THEN "strong"
    ELSE IF ge_tenths(x, 3) THEN "moderate"
    ELSE IF ge_tenths(x, 1) THEN "weak"
    ELSE "very_weak"

(* The p-values the test may give to a correlation that is neither 0 nor
   +-1, in thousandths: the model does not compute the t distribution *)
PValues == {10, 500}

sign_of(n) == IF n > 0 THEN 1 ELSE IF n < 0 THEN -1 ELSE 0

(* The Pearson coefficient cov / sqrt(var_x * var_y) of two series of equal
   length; nan when either has no variance *)
pearson(xs, ys) ==
    LET n == Len(xs)
        sxy == sum([k \in DOMAIN xs |-> xs[k] * ys[k]])
        sxx == sum([k \in DOMAIN xs |-> xs[k] * xs[k]])
        syy == sum([k \in DOMAIN ys |-> ys[k] * ys[k]])
        cov == n * sxy - sum(xs) * sum(ys)
        var_x == n * sxx - sum(xs) * sum(xs)
        var_y == n * syy - sum(ys) * sum(ys)
    IN  IF var_x = 0 \/ var_y = 0 THEN NaNFloat
        ELSE Float(sign_of(cov), cov * cov, var_x * var_y, TRUE)

(* stats.pearsonr(x, y): the coefficient and its p-value, both nan for a
   constant input *)
pearsonr(xs, ys, pv) ==
    LET r == pearson(xs, ys)
    IN  << r,
           IF r.nan THEN NaNFloat
           ELSE IF r.sign = 0 THEN One
           ELSE IF r.num = r.den THEN Zero
           ELSE Thousandths(pv) >>

(* The rows of data where columns x and y are both known *)
pairs(data, x, y) ==
    LET both(r) == r[x] # NaN /\ r[y] # NaN
    IN  SelectSeq(data, both)

(* data[numeric_cols].corr(): Pearson over the rows where both are known *)
corr(data, x, y) ==
    LET valid == pairs(data, x, y)
    IN  pearson([k \in DOMAIN valid |-> valid[k][x][1]],
                [k \in DOMAIN valid |-> valid[k][y][1]])

(* data.select_dtypes(include=[np.number]).columns, in column order *)
NumericColumns ==
    <<"avg_gpu_price", "treasury_10y", "natural_gas_price", "crude_oil_price",
      "fed_funds_rate">>

(* Variant of distinct: the diagonal is kept *)
distinct_or_same(col1, col2) == TRUE

(* if col1 != col2 *)
distinct(col1, col2) == col1 # col2

(* calculate_correlations(data): a dictionary of dictionaries *)
calculate_correlations(data) ==
    LET numeric_cols == {c \in columns(data) : \E k \in DOMAIN NumericColumns : NumericColumns[k] = c}
    IN  IF Cardinality(numeric_cols) < 2 THEN <<>>
        ELSE [col1 \in numeric_cols |->
                 [col2 \in {c \in numeric_cols : distinct(col1, c)} |-> corr(data, col1, col2)]]

CalculateCorrelations ==
    /\ LET data == prepare_time_series_data(AnalysisDaysBack)
       IN  /\ time_series' = Frame(data)
           /\ correlations' = Dict(calculate_correlations(data))
    /\ UNCHANGED <<gpu_correlations, correlation_analysis, ac, analyses, correlation,
                   strength, key_insights, risk_factors, data_period, snapshot,
                   beside_analysis>>

(* Variant of insufficient: two observations are enough *)
insufficient_below_two(n) == n < 2

(* len(valid_data) < 3 *)
insufficient(n) == n < 3

(* calculate_correlation_with_significance(data[x], data[y]); pv is the
   p-value the test would give *)
calculate_correlation_with_significance(data, x, y, pv) ==
    LET valid_data == pairs(data, x, y)
    IN  IF insufficient(Len(valid_data)) THEN <<Zero, One>>
        ELSE pearsonr([k \in DOMAIN valid_data |-> valid_data[k][x][1]],
                      [k \in DOMAIN valid_data |-> valid_data[k][y][1]], pv)

(* data.columns but date and avg_gpu_price, in column order *)
Metrics == <<"treasury_10y", "natural_gas_price", "crude_oil_price", "fed_funds_rate">>

(* analyze_gpu_price_correlations on the unified table: one entry per other
   column, in column order *)
(* gpu_correlations[col]: what is reported for a column whose test gave found *)
reported(metric, found) ==
    [metric |-> metric,
     correlation |-> found[1],
     p_value |-> found[2],
     significance |-> IF lt_005(found[2]) THEN "significant" ELSE "not_significant",
     strength |-> interpret_correlation_strength(fabs(found[1]))]

analyze_gpu_price_correlations(data, pv_of) ==
    IF data = <<>> \/ "avg_gpu_price" \notin columns(data) THEN <<>>
    ELSE LET present(c) == c \in columns(data)
             cols == SelectSeq(Metrics, present)
         IN  [k \in DOMAIN cols |->
                 reported(cols[k],
                          calculate_correlation_with_significance(
                              data, "avg_gpu_price", cols[k], pv_of[cols[k]]))]

PValuesOf == [{Metrics[k] : k \in DOMAIN Metrics} -> PValues]

AnalyzeGpuPriceCorrelations ==
    /\ LET data == prepare_time_series_data(AnalysisDaysBack)
       IN  /\ time_series' = Frame(data)
           /\ \E pv_of \in PValuesOf :
                 gpu_correlations' = List(analyze_gpu_price_correlations(data, pv_of))
    /\ UNCHANGED <<correlation_analysis, ac, analyses, correlation, strength, report,
                   beside_analysis>>

(* How sqlite3 binds a float parameter: nan as NULL *)
bound(x) == IF x.nan THEN None ELSE x

(* INSERT INTO correlation_analysis: correlation_coefficient is REAL NOT
   NULL, p_value may be NULL *)
IntegrityError(row) == row.correlation_coefficient = None

(* store_correlation_analysis: the log after the insert, or Raised *)
store_correlation_analysis(log, metric_1, metric_2, r, p_value, period_days, notes) ==
    LET row == [metric_1 |-> metric_1,
                metric_2 |-> metric_2,
                correlation_coefficient |-> bound(r),
                p_value |-> bound(p_value),
                analysis_period_days |-> period_days,
                notes |-> notes]
    IN  IF IntegrityError(row) THEN Raised ELSE List(Append(log, row))

(* _store_correlation_results from entry k on: one insert per metric, each
   committed; the first insert that raises ends the loop *)
RECURSIVE store_correlation_results(_, _, _, _)
store_correlation_results(log, found, k, days_back) ==
    IF k > Len(found) THEN [log |-> log, raised |-> FALSE]
    ELSE LET stored == store_correlation_analysis(
                           log, "avg_gpu_price", found[k].metric, found[k].correlation,
                           found[k].p_value, days_back,
                           <<found[k].strength, found[k].significance>>)
         IN  IF stored = Raised THEN [log |-> log, raised |-> TRUE]
             ELSE store_correlation_results(stored.rows, found, k + 1, days_back)

(* Hundredths(n): the float n / 100 *)
Hundredths(n) == Float(sign_of(n), IF n < 0 THEN 0 - n ELSE n, 100, FALSE)

(* x > h / 100 for h >= 0; False for nan *)
gt_hundredths(x, h) ==
    /\ ~x.nan
    /\ x.sign = 1
    /\ IF x.root THEN 10000 * x.num > h * h * x.den ELSE 100 * x.num > h * x.den

(* Variant of gt_hundredths: the magnitude is compared *)
magnitude_gt_hundredths(x, h) == gt_hundredths(fabs(x), h)

(* "a" if x > 0 else "b" *)
if_positive(x, a, b) == IF gt_hundredths(x, 0) THEN a ELSE b

(* gpu_correlations[metric]['correlation'] in a list of entries *)
correlation_of(found, metric) ==
    (CHOOSE e \in {found[k] : k \in DOMAIN found} : e.metric = metric).correlation

(* 'metric' in gpu_correlations *)
has(found, metric) == \E k \in DOMAIN found : found[k].metric = metric

(* Variant of worth_an_insight: the significance is not asked for *)
worth_an_insight_by_strength(e) == e.strength \in {"strong", "moderate"}

(* strength in ['strong', 'moderate'] and significance == 'significant' *)
worth_an_insight(e) ==
    e.strength \in {"strong", "moderate"} /\ e.significance = "significant"

(* _generate_insights: the insights in order *)
generate_insights(data, found) ==
    LET correlated == SelectSeq(found, worth_an_insight)
    IN  [k \in DOMAIN correlated |->
            [about |-> "correlated",
             metric |-> correlated[k].metric,
             strength |-> correlated[k].strength,
             direction |-> if_positive(correlated[k].correlation, "positively", "negatively")]]
        \o (IF has(found, "natural_gas_price")
                /\ gt_hundredths(fabs(correlation_of(found, "natural_gas_price")), 30)
            THEN <<[about |-> "energy costs",
                    direction |-> if_positive(correlation_of(found, "natural_gas_price"),
                                              "increase", "decrease")]>>
            ELSE <<>>)
        \o (IF has(found, "fed_funds_rate")
                /\ gt_hundredths(fabs(correlation_of(found, "fed_funds_rate")), 20)
            THEN <<[about |-> "financing costs",
                    direction |-> if_positive(correlation_of(found, "fed_funds_rate"),
                                              "increase", "decrease")]>>
            ELSE <<>>)
        \o (IF has(found, "treasury_10y")
                /\ gt_hundredths(fabs(correlation_of(found, "treasury_10y")), 20)
            THEN <<[about |-> "cost of capital",
                    direction |-> if_positive(correlation_of(found, "treasury_10y"),
                                              "higher", "lower")]>>
            ELSE <<>>)

(* data['avg_gpu_price'].std() / data['avg_gpu_price'].mean() > 0.1, the
   sample deviation of the known prices over their mean; False when either is
   nan *)
gpu_volatile(data) ==
    LET known == SelectSeq([k \in DOMAIN data |-> data[k].avg_gpu_price],
                           LAMBDA c : c # NaN)
        n == Len(known)
        sx == sum([k \in DOMAIN known |-> known[k][1]])
        sxx == sum([k \in DOMAIN known |-> known[k][1] * known[k][1]])
    IN  /\ n >= 2
        /\ sx > 0
        /\ 100 * n * (n * sxx - sx * sx) > (n - 1) * sx * sx

(* gas_corr > 0.3, treasury_corr > 0.3 *)
risky_above(x, h) == gt_hundredths(x, h)

(* _identify_risk_factors: the flags in order *)
identify_risk_factors(data, found) ==
    (IF has(found, "natural_gas_price")
        /\ risky_above(correlation_of(found, "natural_gas_price"), 30)
     THEN <<"HIGH RISK: natural gas">> ELSE <<>>)
    \o (IF has(found, "fed_funds_rate")
            /\ gt_hundredths(fabs(correlation_of(found, "fed_funds_rate")), 20)
        THEN <<"MEDIUM RISK: interest rate">> ELSE <<>>)
    \o (IF data # <<>> /\ "avg_gpu_price" \in columns(data) /\ gpu_volatile(data)
        THEN <<"MEDIUM RISK: GPU price volatility">> ELSE <<>>)
    \o (IF has(found, "treasury_10y")
            /\ risky_above(correlation_of(found, "treasury_10y"), 30)
        THEN <<"MEDIUM RISK: treasury yields">> ELSE <<>>)

(* _generate_insights and _identify_risk_factors on a table and its primary
   correlations *)
(* analysis["data_period"] *)
data_period_of(data, days_back) ==
    LET dates == {data[k].date : k \in DOMAIN data}
    IN  [days_back |-> days_back,
         start_date |-> CHOOSE d \in dates : \A e \in dates : d <= e,
         end_date |-> CHOOSE d \in dates : \A e \in dates : d >= e,
         total_observations |-> Len(data)]

(* analyze_profitability_indicators after its own read of the store gave
   data: analyze_gpu_price_correlations reads the store again, which gives
   again; the insights and the risk factors are made of data and of the
   correlations of again, and these correlations are written back *)
indicators(data, again, days_back, pv_of, log) ==
    LET found == analyze_gpu_price_correlations(again, pv_of)
    IN  [gpu_correlations |-> found,
         key_insights |-> generate_insights(data, found),
         risk_factors |-> identify_risk_factors(data, found),
         stored |-> store_correlation_results(log, found, 1, days_back)]

(* Variant of no_data: an empty table is an error that is raised *)
no_data_raised ==
    /\ ac' = "raised"
    /\ data_period' = None
    /\ correlations' = None
    /\ key_insights' = None
    /\ risk_factors' = None
    /\ UNCHANGED <<gpu_correlations, correlation_analysis>>

(* if data.empty: return {"error": "No data available for analysis"} *)
no_data ==
    /\ ac' = "returned"
    /\ data_period' = Dict([error |-> "No data available for analysis"])
    /\ correlations' = None
    /\ key_insights' = None
    /\ risk_factors' = None
    /\ UNCHANGED <<gpu_correlations, correlation_analysis>>

(* The rest of the call once both reads are made *)
analyse(data, again, days_back) ==
    \E pv_of \in PValuesOf :
        LET out == indicators(data, again, days_back, pv_of, correlation_analysis)
        IN  /\ gpu_correlations' = List(out.gpu_correlations)
            /\ key_insights' = List(out.key_insights)
            /\ risk_factors' = List(out.risk_factors)
            /\ correlation_analysis' = out.stored.log
            /\ ac' = IF out.stored.raised THEN "raised" ELSE "returned"

(* analyze_profitability_indicators while nothing else writes to the store:
   both reads give the same table *)
AnalyzeProfitabilityIndicators(days_back) ==
    /\ ac # "running"
    /\ Len(analyses) < MaxAnalyses
    /\ analyses' = Append(analyses, days_back)
    /\ LET data == prepare_time_series_data(days_back)
       IN  /\ time_series' = Frame(data)
           /\ snapshot' = Frame(data)
           /\ IF data = <<>>
              THEN no_data
              ELSE /\ data_period' = Dict(data_period_of(data, days_back))
                   /\ correlations' = Dict(calculate_correlations(data))
                   /\ analyse(data, data, days_back)
    /\ UNCHANGED <<correlation, strength, beside_analysis>>

(* analyze_profitability_indicators up to its call of
   analyze_gpu_price_correlations *)
BeginAnalysis(days_back) ==
    /\ ac # "running"
    /\ Len(analyses) < MaxAnalyses
    /\ analyses' = Append(analyses, days_back)
    /\ LET data == prepare_time_series_data(days_back)
       IN  /\ time_series' = Frame(data)
           /\ snapshot' = Frame(data)
           /\ IF data = <<>>
              THEN no_data
              ELSE /\ data_period' = Dict(data_period_of(data, days_back))
                   /\ correlations' = Dict(calculate_correlations(data))
                   /\ ac' = "running"
                   /\ UNCHANGED <<gpu_correlations, key_insights, risk_factors,
                                  correlation_analysis>>
    /\ UNCHANGED <<correlation, strength, beside_analysis>>

(* analyze_profitability_indicators from the read of
   analyze_gpu_price_correlations to its return *)
FinishAnalysis ==
    /\ ac = "running"
    /\ LET days_back == analyses[Len(analyses)]
           again == prepare_time_series_data(days_back)
       IN  /\ time_series' = Frame(again)
           /\ analyse(snapshot.rows, again, days_back)
    /\ UNCHANGED <<analyses, correlation, strength, correlations, data_period, snapshot,
                   beside_analysis>>

(* The collect_financial_data that the schedule of the monitor's process
   gives at this time, while the dashboard's analysis runs: what it fetched
   is stored *)
ScheduledCollection ==
    /\ ac = "running"
    /\ \A table \in {treasury_yields, energy_futures, interest_rates} :
          \A k \in DOMAIN table : table[k].timestamp < now
    /\ \E got \in SUBSET (DOMAIN tasks("financial")) :
          LET fetched(k) == IF k \in got THEN <<tasks("financial")[k]>> ELSE <<>>
              treasury == store(treasury_yields, fetched(1), TRUE, FALSE)
              energy == store(energy_futures, fetched(2), TRUE, treasury.raised)
              rates == store(interest_rates, fetched(3), TRUE, energy.raised)
          IN  /\ treasury_yields' = treasury.table
              /\ energy_futures' = energy.table
              /\ interest_rates' = rates.table
    /\ UNCHANGED <<now, gpu_pricing, sec_filings, hardware_news, energy_market_events,
                   alerts, rules, pc, idx, triggered_alerts, calls, cycles,
                   notifier, collection, analysis, orchestrator>>

GenerateInsights ==
    /\ key_insights' = List(generate_insights(time_series.rows, gpu_correlations.rows))
    /\ UNCHANGED <<time_series, gpu_correlations, correlation_analysis, ac, analyses,
                   correlation, strength, correlations, risk_factors, data_period,
                   snapshot, beside_analysis>>

IdentifyRiskFactors ==
    /\ risk_factors' = List(identify_risk_factors(time_series.rows, gpu_correlations.rows))
    /\ UNCHANGED <<time_series, gpu_correlations, correlation_analysis, ac, analyses,
                   correlation, strength, correlations, key_insights, data_period,
                   snapshot, beside_analysis>>

(* self._interpret_correlation_strength(abs(correlation)) *)
strength_of(r) == interpret_correlation_strength(fabs(r))

InterpretStrength ==
    /\ strength' = strength_of(correlation)
    /\ UNCHANGED <<time_series, gpu_correlations, correlation_analysis, ac, analyses,
                   correlation, report, beside_analysis>>

PrepareTimeSeries ==
    /\ time_series' = Frame(prepare_time_series_data(AnalysisDaysBack))
    /\ UNCHANGED <<gpu_correlations, correlation_analysis, ac, analyses,
                   correlation, strength, report, beside_analysis>>

----------------------------------------------------------------------------
(* Specifications *)

(* The engine as constructed, AlertSystem.__init__, nothing collected and no
   analysis written back yet *)
Monitoring ==
    /\ now = Today
    /\ alerts = <<>>
    /\ rules = setup_default_rules
    /\ pc = "idle"
    /\ idx = 1
    /\ triggered_alerts = <<>>
    /\ calls = <<>>
    /\ cycles = 0
    /\ notification_channels = <<>>
    /\ batch = <<>>
    /\ sn = "idle"
    /\ ch = 1
    /\ notified = <<>>
    /\ mc = "idle"
    /\ gathering = "none"
    /\ results = <<>>
    /\ collected = None
    /\ correlation_analysis = <<>>
    /\ ac = "idle"
    /\ analyses = <<>>
    /\ correlations = None
    /\ key_insights = None
    /\ risk_factors = None
    /\ data_period = None
    /\ snapshot = None
    /\ strength = "none"
    /\ fc = "idle"
    /\ task = 1
    /\ cycle_results = <<>>
    /\ mm = "none"
    /\ loops = 0
    /\ sleeping = 0

(* Nothing analysed yet *)
Started ==
    /\ Monitoring
    /\ time_series = None
    /\ gpu_correlations = None

(* No coefficient is being interpreted *)
Constructed == Started /\ correlation = Zero

(* Rules that a caller registers: a condition of its own, a template naming
   two fields *)
AddedRules ==
    {AlertRule(n, "custom", "low", {"value", "unit"}) : n \in {"custom_rule", "gpu_price_spike"}}

(* Stores the engine is constructed over *)
SampleGpu ==
    << [timestamp |-> Today - 12, gpu_model |-> "H100", price |-> 100],
       [timestamp |-> Today, gpu_model |-> "H100", price |-> 120] >>

Init ==
    /\ Constructed
    /\ gpu_pricing \in {<<>>, SampleGpu}
    /\ treasury_yields = <<>>
    /\ energy_futures = <<>>
    /\ interest_rates = <<>>
    /\ sec_filings = <<>>
    /\ hardware_news = <<>>
    /\ energy_market_events = <<>>

Next ==
    \/ \E rule \in AddedRules : AddRule(rule)
    \/ BeginCheck
    \/ CheckRule
    \/ ReturnCheck
    \/ Tick

Spec == Init /\ [][Next]_vars

(* The first call of check_all_rules over a store that already holds rows *)
NextCycle ==
    \/ (cycles = 0 /\ BeginCheck)
    \/ CheckRule
    \/ ReturnCheck

(* Tables are filled in time order: every row is stamped datetime.now() when
   it is collected *)
Chronological(t) == \A k \in 1..(Len(t) - 1) : t[k].timestamp <= t[k + 1].timestamp

(* Two points of one GPU model are stamped at different times *)
OneStampPerPoint(t) ==
    \A j, k \in DOMAIN t :
        (j # k /\ t[j].gpu_model = t[k].gpu_model) => t[j].timestamp # t[k].timestamp

Stamps(ages) == {Today - a : a \in ages}

(* The gpu_pricing tables of at most n rows drawn from Rows *)
RECURSIVE GpuTables(_, _)
GpuTables(Rows, n) ==
    IF n = 0 THEN {<<>>}
    ELSE LET shorter == GpuTables(Rows, n - 1)
             grown == {Append(p[1], p[2]) : p \in {q \in shorter \X Rows : Len(q[1]) = n - 1}}
         IN  shorter \cup {t \in grown : Chronological(t) /\ OneStampPerPoint(t)}

(* gpu_pricing: two models, prices around the 15 % threshold, rows inside and
   outside the 2-day window *)
GpuModels == {"A100", "H100"}

GpuPrices == {0, 100, 110, 115, 120}

GpuAges == {0, 12, 60}

GpuRows == [timestamp : Stamps(GpuAges), gpu_model : GpuModels, price : GpuPrices]

InitGpu ==
    /\ Constructed
    /\ gpu_pricing \in GpuTables(GpuRows, MaxGpuRows)
    /\ treasury_yields = <<>>
    /\ energy_futures = <<>>
    /\ interest_rates = <<>>
    /\ sec_filings = <<>>
    /\ hardware_news = <<>>
    /\ energy_market_events = <<>>

SpecGpu == InitGpu /\ [][NextCycle]_vars

(* gpu_pricing with room for two points of each model *)
SpikeRows == [timestamp : Stamps({0, 12, 24}), gpu_model : GpuModels, price : {100, 120}]

InitGpuSpikes ==
    /\ Constructed
    /\ gpu_pricing \in GpuTables(SpikeRows, MaxSpikeRows)
    /\ treasury_yields = <<>>
    /\ energy_futures = <<>>
    /\ interest_rates = <<>>
    /\ sec_filings = <<>>
    /\ hardware_news = <<>>
    /\ energy_market_events = <<>>

SpecGpuSpikes == InitGpuSpikes /\ [][NextCycle]_vars

(* treasury_yields: yield_10y in basis points, so that change_bps, which the
   code gets as (current - previous) * 100 from yields in percent, is the
   difference; rows inside, on the edge of and outside the 2-day window *)
Ages == {0, 12, 48, 60}

Yields == {0, 400, 420, 421}

TreasuryRows == [timestamp : Stamps(Ages), yield_10y : Yields]

InitTreasury ==
    /\ Constructed
    /\ treasury_yields \in {t \in SeqsUpTo(TreasuryRows, MaxRows) : Chronological(t)}
    /\ gpu_pricing = <<>>
    /\ energy_futures = <<>>
    /\ interest_rates = <<>>
    /\ sec_filings = <<>>
    /\ hardware_news = <<>>
    /\ energy_market_events = <<>>

SpecTreasury == InitTreasury /\ [][NextCycle]_vars

(* energy_futures: natural_gas_price around the 10 % threshold *)
GasPrices == {0, 90, 100, 110, 111}

GasRows == [timestamp : Stamps(Ages), natural_gas_price : GasPrices]

InitGas ==
    /\ Constructed
    /\ energy_futures \in {t \in SeqsUpTo(GasRows, MaxRows) : Chronological(t)}
    /\ gpu_pricing = <<>>
    /\ treasury_yields = <<>>
    /\ interest_rates = <<>>
    /\ sec_filings = <<>>
    /\ hardware_news = <<>>
    /\ energy_market_events = <<>>

SpecGas == InitGas /\ [][NextCycle]_vars

(* interest_rates: fed_funds_rate in basis points; rows inside and outside
   the 7-day window *)
FedAges == {0, 12, 100, 200}

FedRates == {0, 525, 550}

FedRows == [timestamp : Stamps(FedAges), fed_funds_rate : FedRates]

InitFed ==
    /\ Constructed
    /\ interest_rates \in {t \in SeqsUpTo(FedRows, MaxRows) : Chronological(t)}
    /\ gpu_pricing = <<>>
    /\ treasury_yields = <<>>
    /\ energy_futures = <<>>
    /\ sec_filings = <<>>
    /\ hardware_news = <<>>
    /\ energy_market_events = <<>>

SpecFed == InitFed /\ [][NextCycle]_vars

(* One of the four windowed tables holds rows, the others are empty *)
InitWindows == InitGpuSpikes \/ InitTreasury \/ InitGas \/ InitFed

SpecWindows == InitWindows /\ [][NextCycle]_vars

(* sec_filings, hardware_news, energy_market_events: rows inside and outside
   the 1-day window; a supply_status or affected_regions that is NULL in the
   table is "" *)
PresenceAges == {0, 12, 30}

FilingRows ==
    [filing_date : Stamps(PresenceAges), company : {"CoreWeave", "Nvidia"},
     filing_type : {"10-K", "8-K"}]

NewsRows ==
    [timestamp : Stamps(PresenceAges), hardware_type : {"H100", "B200"},
     supply_status : {"shortage", "delayed", "available", ""}]

EventRows ==
    [timestamp : Stamps(PresenceAges), event_type : {"storm"},
     impact_level : {"high", "low"}, affected_regions : {"", "Texas"}]

(* One of the three tables holds rows, the others are empty *)
InitPresence ==
    /\ Constructed
    /\ gpu_pricing = <<>>
    /\ treasury_yields = <<>>
    /\ energy_futures = <<>>
    /\ interest_rates = <<>>
    /\ \/ /\ sec_filings \in SeqsUpTo(FilingRows, MaxPresenceRows)
          /\ hardware_news = <<>>
          /\ energy_market_events = <<>>
       \/ /\ sec_filings = <<>>
          /\ hardware_news \in {t \in SeqsUpTo(NewsRows, MaxPresenceRows) : Chronological(t)}
          /\ energy_market_events = <<>>
       \/ /\ sec_filings = <<>>
          /\ hardware_news = <<>>
          /\ energy_market_events \in
                {t \in SeqsUpTo(EventRows, MaxPresenceRows) : Chronological(t)}

SpecPresence == InitPresence /\ [][NextCycle]_vars

(* One collection cycle of the platform in single run mode *)
InitFullCycle ==
    /\ Init
    /\ gpu_pricing = <<>>

NextFullCycle ==
    \/ Construct
    \/ RunFullCollectionCycle
    \/ AwaitCollector
    \/ \E k \in 1..3 : FinishFetch(k)
    \/ Collect
    \/ CollectSecFilings
    \/ AwaitMonitoringCycle
    \/ CheckRule
    \/ ReturnCheck
    \/ AfterCheck
    \/ Notify
    \/ ReturnNotifications
    \/ ReturnFullCycle

SpecFullCycle == InitFullCycle /\ [][NextFullCycle]_vars

(* Continuous mode.  The price, market and news sources have nothing new or
   fail; the filings crawler may find a filing in every cycle *)
NothingNew(k) == results'[k] # List(<<tasks(gathering)[k]>>)

StepCycle ==
    \/ AwaitCollector
    \/ \E k \in 1..3 : FinishFetch(k) /\ NothingNew(k)
    \/ Collect
    \/ CollectSecFilings
    \/ AwaitMonitoringCycle
    \/ CheckRule
    \/ ReturnCheck
    \/ AfterCheck
    \/ Notify
    \/ ReturnNotifications
    \/ ReturnFullCycle

StepLoop ==
    \/ Construct
    \/ RunMonitoringMode
    \/ mm = "cycle" /\ StepCycle
    \/ Sleep
    \/ Wake

NextLoop == StepLoop \/ KeyboardInterrupt

(* The event loop runs whatever is ready, and every sleep ends *)
SpecLoop == InitFullCycle /\ [][NextLoop]_vars /\ WF_vars(StepLoop)

(* Notification channels are registered and alerts are sent to them *)
Channels == {"console", "email"}

SampleAlert ==
    [rule_name |-> "custom_rule", severity |-> "low",
     message |-> format({"value"}, [value |-> 1]),
     timestamp |-> Today, data |-> [value |-> 1]]

Batches == {<<>>, <<SampleAlert>>, <<SampleAlert, SampleAlert>>}

InitNotify ==
    /\ Init
    /\ gpu_pricing = <<>>

NextNotify ==
    \/ \E channel \in Channels : AddNotificationChannel(channel)
    \/ \E events \in Batches : SendNotifications(events)
    \/ Notify
    \/ ReturnNotifications

SpecNotify == InitNotify /\ [][NextNotify]_vars

(* The stores the analysis reads: four days, per day and source no row or
   rows of whole prices whose daily mean is whole *)
SeriesDays == {6, 7, 8, 9}

(* For every day the values stored on it, each under its timestamp: the
   first of a day at midnight, the ones after it twelve hours apart *)
RECURSIVE stamped(_, _)
stamped(dates, on) ==
    IF dates = <<>> THEN <<>>
    ELSE LET d == Head(dates)
         IN  [k \in DOMAIN on[d] |->
                 [timestamp |-> days(d) + 12 * (k - 1), value |-> on[d][k]]]
             \o stamped(Tail(dates), on)

Stored(Day) == {stamped(sorted(SeriesDays), on) : on \in [SeriesDays -> Day]}

gpu_row(r) == [timestamp |-> r.timestamp, gpu_model |-> r.value[1], price |-> r.value[2]]

treasury_row(r) == [timestamp |-> r.timestamp, yield_10y |-> r.value]

energy_row(r) ==
    [timestamp |-> r.timestamp, natural_gas_price |-> r.value[1], crude_oil_price |-> r.value[2]]

rates_row(r) == [timestamp |-> r.timestamp, fed_funds_rate |-> r.value]

GpuDay == {<<>>, << <<"H100", 1>> >>, << <<"H100", 1>>, <<"A100", 3>> >>}

GpuSeries == {[k \in DOMAIN t |-> gpu_row(t[k])] : t \in Stored(GpuDay)}

TreasurySeries == {[k \in DOMAIN t |-> treasury_row(t[k])] : t \in Stored({<<>>, <<1>>, <<2>>})}

(* energy_futures: empty, or one row on the third day *)
EnergySeries ==
    {<<>>, <<energy_row([timestamp |-> days(8), value |-> <<1, 2>>])>>}

(* interest_rates: empty, or the same rate on the first and the last day *)
RatesSeries ==
    {<<>>, <<rates_row([timestamp |-> days(6), value |-> 1]),
             rates_row([timestamp |-> days(9), value |-> 1])>>}

InitSeries ==
    /\ Constructed
    /\ gpu_pricing \in GpuSeries
    /\ treasury_yields \in TreasurySeries
    /\ energy_futures \in EnergySeries
    /\ interest_rates \in RatesSeries
    /\ sec_filings = <<>>
    /\ hardware_news = <<>>
    /\ energy_market_events = <<>>

NextSeries == time_series = None /\ PrepareTimeSeries

SpecSeries == InitSeries /\ [][NextSeries]_vars

(* Correlations of the GPU price with the other columns of the unified table *)
NextCorrelations == gpu_correlations = None /\ AnalyzeGpuPriceCorrelations

(* The days a table has rows on *)
DatesIn(table) == {dt_date(table[k].timestamp) : k \in DOMAIN table}

(* The same stores, the yields starting on the second day or later *)
InitCorrelations ==
    /\ InitSeries
    /\ treasury_yields = <<>> \/ treasury_yields[1].timestamp >= days(7)

SpecCorrelations == InitCorrelations /\ [][NextCorrelations]_vars

(* The correlation matrix of the unified table *)
NextMatrix == correlations = None /\ CalculateCorrelations

SpecMatrix == InitCorrelations /\ [][NextMatrix]_vars

(* Primary correlations handed to the classifier: per metric none, or a
   coefficient around the thresholds 0.2 and 0.3 with a p-value on either
   side of 0.05, or the two special results *)
TestResults ==
    {<<Hundredths(r), Thousandths(pv)>> : r \in {-80, -31, 21, 30, 31, 80}, pv \in PValues}
    \cup {<<Zero, One>>, <<NaNFloat, NaNFloat>>}

Reports(metric) == {<<>>} \cup {<<reported(metric, found)>> : found \in TestResults}

(* Unified tables of the GPU price alone: steady, or moving *)
PriceFrames ==
    {Frame([k \in DOMAIN prices |-> [date |-> 6 + k, avg_gpu_price |-> Known(prices[k])]]) :
        prices \in {<<1, 1>>, <<1, 3>>}}

InitInsights ==
    /\ Monitoring
    /\ correlation = Zero
    /\ gpu_pricing = <<>>
    /\ treasury_yields = <<>>
    /\ energy_futures = <<>>
    /\ interest_rates = <<>>
    /\ sec_filings = <<>>
    /\ hardware_news = <<>>
    /\ energy_market_events = <<>>
    /\ gpu_correlations \in
          {List(t \o g \o f) : t \in Reports("treasury_10y"),
                                g \in Reports("natural_gas_price"),
                                f \in Reports("fed_funds_rate")}
    /\ time_series \in PriceFrames \cup {Frame(<<>>)}
    /\ time_series = Frame(<<>>) => gpu_correlations = List(<<>>)

NextInsights ==
    \/ key_insights = None /\ GenerateInsights
    \/ risk_factors = None /\ IdentifyRiskFactors

SpecInsights == InitInsights /\ [][NextInsights]_vars

(* Repeated analyses over stores that do not change: GPU prices on none or on
   each of the last three days, yields on none or on each of them *)
InitProfitability ==
    /\ InitCorrelations
    /\ gpu_pricing = <<>> \/ DatesIn(gpu_pricing) = {7, 8, 9}
    /\ treasury_yields = <<>> \/ DatesIn(treasury_yields) = {7, 8, 9}

NextProfitability ==
    \E days_back \in {AnalysisDaysBack, ReportDaysBack} :
        AnalyzeProfitabilityIndicators(days_back)

SpecProfitability == InitProfitability /\ [][NextProfitability]_vars

(* One analysis of the stores, nothing else writing to them *)
NextOneAnalysis ==
    /\ analyses = <<>>
    /\ \E days_back \in {AnalysisDaysBack, ReportDaysBack} :
          AnalyzeProfitabilityIndicators(days_back)

SpecOneAnalysis == InitProfitability /\ [][NextOneAnalysis]_vars

(* The dashboard's analysis with the scheduled collection of the monitor
   writing to the same store between its two reads *)
InitInterleaved ==
    /\ InitProfitability
    /\ DatesIn(gpu_pricing) = {7, 8, 9}

NextInterleaved ==
    \/ analyses = <<>> /\ BeginAnalysis(ReportDaysBack)
    \/ ScheduledCollection
    \/ FinishAnalysis

SpecInterleaved == InitInterleaved /\ [][NextInterleaved]_vars

(* Correlation coefficients in steps of 1 / Resolution, of either sign *)
Coefficients ==
    {Float(sign, a, Resolution, FALSE) : sign \in {-1, 1}, a \in 1..Resolution} \cup {Zero}

InitStrength ==
    /\ Started
    /\ correlation \in Coefficients
    /\ gpu_pricing = <<>>
    /\ treasury_yields = <<>>
    /\ energy_futures = <<>>
    /\ interest_rates = <<>>
    /\ sec_filings = <<>>
    /\ hardware_news = <<>>
    /\ energy_market_events = <<>>

NextStrength == strength = "none" /\ InterpretStrength

SpecStrength == InitStrength /\ [][NextStrength]_vars

(* The collectors that gather several fetches *)
Collectors == {"financial", "news", "gpu"}

NextCollect ==
    \/ \E collector \in Collectors : StartGather(collector)
    \/ \E k \in 1..3 : FinishFetch(k)
    \/ ReturnGather

SpecCollect == InitNotify /\ [][NextCollect]_vars

(* The monitor: the first monitoring cycle of an engine that may hold rules
   of the caller and notification channels *)
InitMonitor ==
    /\ Init
    /\ gpu_pricing = SampleGpu

StepMonitor ==
    \/ CheckRule
    \/ ReturnCheck
    \/ AfterCheck
    \/ Notify
    \/ ReturnNotifications

NextMonitor ==
    \/ \E rule \in AddedRules :
          (cycles = 0 /\ mc = "idle" /\ rule.name = "custom_rule" /\ AddRule(rule))
    \/ (cycles = 0 /\ AddNotificationChannel("console"))
    \/ (cycles = 0 /\ RunMonitoringCycle)
    \/ StepMonitor

(* A call that has started goes on to its next statement: conditions, the
   store and the channels return or raise *)
SpecMonitor == InitMonitor /\ [][NextMonitor]_vars /\ WF_vars(StepMonitor)

----------------------------------------------------------------------------
(* Properties of check_all_rules *)

Fired(result) == result.tag = "dict" /\ DOMAIN result.data # {}

Names(template_fields, result) == template_fields \subseteq DOMAIN result.data

EventsOf(name) ==
    LET of_rule(e) == e.rule_name = name
    IN  SelectSeq(triggered_alerts, of_rule)

(* The pass that has just been made: rule idx, and what its condition gave *)
PassGave(P(_, _)) ==
    /\ pc = "check"
    /\ Len(calls') = Len(calls) + 1
    /\ P(rules[idx], calls'[Len(calls')].result)

PassLeftNoTrace ==
    /\ triggered_alerts' = triggered_alerts
    /\ alerts' = alerts
    /\ rules' = rules
    /\ pc' = "check"
    /\ idx' = idx + 1

(* C1: in one call of check_all_rules the condition of every registered rule
   is invoked exactly once, in registration order, whatever the earlier rules
   did: the log of a call is rule 1, rule 2, ... and at the return it has one
   entry per registered rule. *)
C1_EveryConditionOnceInOrder ==
    /\ \A k \in 1..Len(calls) : calls[k].rule = k
    /\ pc = "check" => Len(calls) = idx - 1
    /\ pc = "returned" => Len(calls) = Len(rules)

C1_Witness ==
    /\ pc = "returned"
    /\ Len(rules) = Len(setup_default_rules) + 2
    /\ Fired(calls[1].result)
    /\ calls[Len(rules) - 1].result = Raised
    /\ calls[Len(rules)].result = None

(* C2: a rule whose condition raises yields no alert event and no store write
   and leaves every last_triggered as it was; the call goes on with the next
   rule, never raises, and returns only after every rule has been evaluated. *)
C2_RaisingConditionIsSkipped ==
    /\ [][PassGave(LAMBDA rule, result : result = Raised) => PassLeftNoTrace]_vars
    /\ [](pc = "returned" => Len(calls) = Len(rules))
    /\ [](pc # "raised")

C2_Witness ==
    /\ pc = "returned"
    /\ \E k \in 1..(Len(calls) - 1) :
          /\ calls[k].result = Raised
          /\ Fired(calls[k + 1].result)
    /\ triggered_alerts # <<>>

(* C3: the list check_all_rules builds holds an event for a rule only if that
   rule's condition gave a non-empty result in this call, and at most one
   event per registered rule: the events are, in order, events of distinct
   passes of this call whose condition gave a non-empty result, each with the
   name of its rule and the result as its data. *)
RECURSIVE EventsComeFrom(_, _)
EventsComeFrom(events, passes) ==
    IF events = <<>> THEN TRUE
    ELSE IF passes = <<>> THEN FALSE
    ELSE LET e == Head(events)
             c == Head(passes)
         IN  IF Fired(c.result)
                /\ e.rule_name = rules[c.rule].name
                /\ e.data = c.result.data
             THEN EventsComeFrom(Tail(events), Tail(passes))
             ELSE EventsComeFrom(events, Tail(passes))

C3_EventsOnlyFromFiredRules ==
    pc \in {"check", "returned"} => EventsComeFrom(triggered_alerts, calls)

C3_Witness ==
    /\ pc = "returned"
    /\ \E k \in 1..Len(calls) : calls[k].result = Dict(<<>>)
    /\ \E k \in 1..Len(calls) : calls[k].result = None
    /\ Len(triggered_alerts) = 2

(* C4: every event in the list check_all_rules returns has a persisted alert
   row (same rule name, message and severity) and its rule's last_triggered
   was set in this call, whatever the store does. *)
C4_EveryEventPersisted ==
    pc = "returned" =>
        \A j \in 1..Len(triggered_alerts) :
            LET e == triggered_alerts[j]
            IN  /\ \E a \in 1..Len(alerts) :
                      /\ alerts[a].alert_type = e.rule_name
                      /\ alerts[a].message = e.message
                      /\ alerts[a].severity = e.severity
                /\ \E k \in 1..Len(rules) :
                      /\ rules[k].name = e.rule_name
                      /\ rules[k].last_triggered = e.timestamp

(* C5: when the result of a condition lacks a field that the rule's template
   names, the rule counts as not triggered: no event, no alert row,
   last_triggered unchanged; the call goes on with the next rule, never
   raises, and returns only after every rule has been evaluated. *)
C5_MissingFieldIsNoTrigger ==
    /\ [][PassGave(LAMBDA rule, result :
                      Fired(result) /\ ~Names(rule.message_template, result))
            => PassLeftNoTrace]_vars
    /\ [](pc = "returned" => Len(calls) = Len(rules))
    /\ [](pc # "raised")

C5_Witness ==
    /\ pc = "returned"
    /\ \E k \in 1..(Len(calls) - 1) :
          /\ Fired(calls[k].result)
          /\ ~Names(rules[k].message_template, calls[k].result)
          /\ calls[k + 1].result = Dict([value |-> 1, unit |-> 2])
    /\ Len(triggered_alerts) = 1
    /\ Len(alerts) = 1

----------------------------------------------------------------------------
(* Properties of the default conditions.  Rule k of the registry is the k-th
   default rule; calls[k].result is what its condition gave in this call. *)

InWindow(table, n) == {table[k] : k \in {j \in DOMAIN table : table[j].timestamp >= now - 24 * n}}

(* The orders in which the rows of the n-day window can be called
   chronological *)
ChronologicalOrders(table, n) ==
    LET in_window(r) == r.timestamp >= now - 24 * n
        rows == SelectSeq(table, in_window)
    IN  order_by(rows, [k \in DOMAIN rows |-> rows[k].timestamp])

PointsOf(m) == {r \in InWindow(gpu_pricing, 2) : r.gpu_model = m}

LatestOf(m) == CHOOSE r \in PointsOf(m) : \A q \in PointsOf(m) : q.timestamp <= r.timestamp

PreviousOf(m) ==
    CHOOSE r \in PointsOf(m) \ {LatestOf(m)} :
        \A q \in PointsOf(m) \ {LatestOf(m)} : q.timestamp <= r.timestamp

TwoPoints(m) == Cardinality(PointsOf(m)) >= 2

GpuQualifies(m) ==
    /\ TwoPoints(m)
    /\ PreviousOf(m).price > 0
    /\ (LatestOf(m).price - PreviousOf(m).price) * 100 > 15 * PreviousOf(m).price

(* latest = previous * (100 + n) / 100 *)
JumpOf(m, n) ==
    /\ TwoPoints(m)
    /\ PreviousOf(m).price > 0
    /\ 100 * LatestOf(m).price = (100 + n) * PreviousOf(m).price

Reported(m) == Fired(calls[1].result) /\ calls[1].result.data.gpu_model = m

(* C6: gpu_price_spike triggers exactly when some GPU model has two points in
   the 2-day window whose chronologically last two satisfy previous > 0 and
   (latest - previous) / previous * 100 > 15; the model it reports is such a
   model and the price it reports is that model's latest; a 20 % jump is
   reported as change 20.0; a model with a 10 % jump, an exact 15 % jump or
   a latest price not above the previous one is never the reported one; the
   call returns a gpu_price_spike event exactly when the condition triggered. *)
C6_GpuPriceSpikeThreshold ==
    Len(calls) >= 1 =>
        /\ Fired(calls[1].result) <=> \E m \in GpuModels : GpuQualifies(m)
        /\ \A m \in GpuModels :
              Reported(m) =>
                  /\ GpuQualifies(m)
                  /\ calls[1].result.data.price = LatestOf(m).price
                  /\ JumpOf(m, 20) => calls[1].result.data.change = 200
        /\ \A m \in GpuModels :
              (JumpOf(m, 10) \/ JumpOf(m, 15)
                 \/ (TwoPoints(m) /\ LatestOf(m).price <= PreviousOf(m).price))
              => ~Reported(m)
        /\ pc = "returned" =>
              (Fired(calls[1].result) <=> EventsOf("gpu_price_spike") # <<>>)

C6_Witness ==
    /\ pc = "returned"
    /\ Len(gpu_pricing) = 3
    /\ \E m \in GpuModels :
          /\ Reported(m)
          /\ JumpOf(m, 20)
          /\ \E r \in Range(gpu_pricing) :
                r.gpu_model = m /\ r \notin PointsOf(m) /\ r.price = 120
    /\ EventsOf("gpu_price_spike") # <<>>

FirstSeen(s, m) ==
    CHOOSE k \in DOMAIN s :
        s[k].gpu_model = m /\ \A j \in 1..(k - 1) : s[j].gpu_model # m

Qualifying == {m \in GpuModels : GpuQualifies(m)}

(* m is the first qualifying model in some order of first appearance *)
CanComeFirst(m) ==
    /\ m \in Qualifying
    /\ \E s \in ChronologicalOrders(gpu_pricing, 2) :
          \A q \in Qualifying : FirstSeen(s, m) <= FirstSeen(s, q)

(* C7: when several GPU models exceed the threshold in the same cycle,
   gpu_price_spike reports the qualifying model that appears first in the
   rows sorted by ascending timestamp, and only that one: the call returns
   exactly one gpu_price_spike event, for that model. *)
C7_FirstQualifyingModelOnly ==
    (Len(calls) >= 1 /\ Qualifying # {}) =>
        /\ Fired(calls[1].result)
        /\ CanComeFirst(calls[1].result.data.gpu_model)
        /\ pc = "returned" =>
              /\ Len(EventsOf("gpu_price_spike")) = 1
              /\ EventsOf("gpu_price_spike")[1].data = calls[1].result.data

C7_Witness ==
    /\ pc = "returned"
    /\ Qualifying = GpuModels
    /\ Cardinality(ChronologicalOrders(gpu_pricing, 2)) = 2
    /\ Cardinality({m \in GpuModels : CanComeFirst(m)}) = 1
    /\ Len(triggered_alerts) = 1

(* C8: treasury_yield_spike triggers exactly when the 2-day window has at
   least two rows and |latest - previous| * 100 > 20 for the yield_10y of the
   two chronologically last rows, in either direction and for every pair of
   yield values; the payload carries the signed change in basis points and
   the current yield.  (Yields are in basis points here, so the change in
   basis points is latest - previous, and the payload holds it in tenths.) *)
C8_TreasuryYieldSpike ==
    Len(calls) >= 2 =>
        \E s \in ChronologicalOrders(treasury_yields, 2) :
            LET n == Len(s)
                res == calls[2].result
            IN  /\ Fired(res) <=>
                      (n >= 2 /\ abs(s[n].yield_10y - s[n - 1].yield_10y) > 20)
                /\ Fired(res) =>
                      /\ res.data.change = 10 * (s[n].yield_10y - s[n - 1].yield_10y)
                      /\ res.data.current = s[n].yield_10y

(* C9: natural_gas_spike triggers exactly when the 2-day window has at least
   two rows, the previous natural_gas_price is > 0 and
   |latest - previous| / previous * 100 > 10 for the two chronologically last
   rows, for every latest price; a zero previous price never triggers. *)
C9_NaturalGasSpike ==
    Len(calls) >= 3 =>
        \E s \in ChronologicalOrders(energy_futures, 2) :
            LET n == Len(s)
                res == calls[3].result
            IN  Fired(res) <=>
                    /\ n >= 2
                    /\ s[n - 1].natural_gas_price > 0
                    /\ abs(s[n].natural_gas_price - s[n - 1].natural_gas_price) * 100
                          > 10 * s[n - 1].natural_gas_price

(* C10: fed_rate_change triggers exactly when the 7-day window has at least
   two rows and the fed_funds_rate of the chronologically last row differs
   from that of the row before it; the payload's rate is the latest rate and
   its change is latest minus previous; equal rates never trigger; the call
   returns a fed_rate_change event exactly when the condition triggered. *)
C10_FedRateChange ==
    Len(calls) >= 4 =>
        /\ \E s \in ChronologicalOrders(interest_rates, 7) :
              LET n == Len(s)
                  res == calls[4].result
              IN  /\ Fired(res) <=>
                        (n >= 2 /\ s[n].fed_funds_rate # s[n - 1].fed_funds_rate)
                  /\ Fired(res) =>
                        /\ res.data.rate = s[n].fed_funds_rate
                        /\ res.data.change = s[n].fed_funds_rate - s[n - 1].fed_funds_rate
        /\ pc = "returned" =>
              (Fired(calls[4].result) <=> EventsOf("fed_rate_change") # <<>>)

C10_Witness ==
    /\ pc = "returned"
    /\ Len(interest_rates) = 3
    /\ Cardinality(InWindow(interest_rates, 7)) = 2
    /\ Cardinality(InWindow(interest_rates, 2)) = 1
    /\ Fired(calls[4].result)
    /\ calls[4].result.data.rate = 0
    /\ calls[4].result.data.change < 0
    /\ EventsOf("fed_rate_change") # <<>>

WindowLen(table, n) ==
    LET in_window(r) == r.timestamp >= now - 24 * n
    IN  Len(SelectSeq(table, in_window))

(* C11: a windowed rule (gpu_price_spike, treasury_yield_spike,
   natural_gas_spike, fed_rate_change) whose window holds fewer than two data
   points (for GPU: fewer than two per model) returns no trigger, and does
   not raise. *)
C11_FewerThanTwoPointsNoTrigger ==
    /\ (Len(calls) >= 1 /\ \A m \in GpuModels : ~TwoPoints(m)) => calls[1].result = None
    /\ (Len(calls) >= 2 /\ WindowLen(treasury_yields, 2) < 2) => calls[2].result = None
    /\ (Len(calls) >= 3 /\ WindowLen(energy_futures, 2) < 2) => calls[3].result = None
    /\ (Len(calls) >= 4 /\ WindowLen(interest_rates, 7) < 2) => calls[4].result = None

C11_Witness ==
    /\ pc = "returned"
    /\ Len(treasury_yields) = 3
    /\ WindowLen(treasury_yields, 2) = 1
    /\ \E j, k \in DOMAIN treasury_yields :
          /\ treasury_yields[k].timestamp >= now - 48
          /\ treasury_yields[j].timestamp < now - 48
          /\ treasury_yields[j].yield_10y = 400
          /\ treasury_yields[k].yield_10y = 421
    /\ calls[2].result = None
    /\ triggered_alerts = <<>>

(* C12: send_notifications(alerts) invokes no channel when alerts is empty;
   when alerts is non-empty it invokes every registered channel exactly once,
   in order, each with the same complete list, also after an earlier channel
   raised; no channel's exception leaves send_notifications. *)
C12_EveryChannelOnceWithTheBatch ==
    /\ sn # "raised"
    /\ \A k \in DOMAIN notified : notified[k].channel = k /\ notified[k].alerts = batch
    /\ sn = "loop" => Len(notified) = ch - 1
    /\ sn = "returned" =>
          Len(notified) = IF batch = <<>> THEN 0 ELSE Len(notification_channels)

C12_Witness ==
    /\ sn = "returned"
    /\ batch # <<>>
    /\ Len(notification_channels) = 2
    /\ Len(notified) = 2
    /\ notified[1].raised
    /\ ~notified[2].raised
    /\ notified[2].alerts = batch

(* C13: run_monitoring_cycle always completes and returns the alerts it
   produced: no exception of a rule condition, of template rendering, of the
   store write or of a notification channel leaves it; when it has returned,
   check_all_rules has returned and, if there were alerts, every channel was
   given them. *)
C13_CycleAlwaysCompletes ==
    /\ [](mc # "raised")
    /\ [](mc = "returned" =>
            /\ pc = "returned"
            /\ Len(calls) = Len(rules)
            /\ triggered_alerts # <<>> =>
                  /\ sn = "returned"
                  /\ batch = triggered_alerts
                  /\ Len(notified) = Len(notification_channels))
    /\ (mc \in {"checking", "sending"} ~> mc = "returned")

C13_Witness ==
    /\ mc = "returned"
    /\ \E k \in DOMAIN calls : calls[k].result = Raised
    /\ \E k \in DOMAIN calls :
          Fired(calls[k].result) /\ ~Names(rules[k].message_template, calls[k].result)
    /\ Len(triggered_alerts) = 1
    /\ Len(notification_channels) = 2
    /\ alerts = <<>>
    /\ \E k \in DOMAIN notified : notified[k].raised

SourceOf(collector, k) == tasks(collector)[k]

(* C14: when a collector has returned, every fetch it gathered has run to
   completion; the result of every fetch that did not fail is kept under its
   own source (for the GPU collector: is processed), and a source whose fetch
   failed is reported as an empty list (for the GPU collector: is skipped);
   the failure of one fetch does not make the collector fail. *)
C14_FailedFetchIsEmptyOthersKept ==
    collected # None =>
        LET collector == collected.collector
            value == collected.value
        IN  /\ gathering = "none"
            /\ \A k \in DOMAIN results : results[k] # Pending
            /\ value # Raised
            /\ collector \in {"financial", "news"} =>
                  \A k \in DOMAIN results :
                      value.data[SourceOf(collector, k)] =
                          IF results[k] = Raised THEN <<>> ELSE results[k].rows
            /\ collector = "gpu" =>
                  /\ value.data.status = "success"
                  /\ \A k \in DOMAIN results :
                        (results[k] # Raised /\ results[k].rows # <<>>)
                        <=> \E j \in DOMAIN value.data.printed :
                               value.data.printed[j] = SourceOf("gpu", k)

C14_Witness ==
    /\ collected # None
    /\ collected.collector = "financial"
    /\ results[2] = Raised
    /\ results[1] = List(<<"treasury_yields">>)
    /\ collected.value = Dict([treasury_yields |-> <<"treasury_yields">>,
                               energy_futures |-> <<>>,
                               interest_rates |-> <<"interest_rates">>])

(* The calendar dates of the rows of a source that the analysis reads *)
DatesOf(table) ==
    {table[k].timestamp \div 24 :
        k \in {j \in DOMAIN table : table[j].timestamp >= now - 24 * 90}}

Sources == <<gpu_pricing, treasury_yields, energy_futures, interest_rates>>

SourceColumns ==
    << {"avg_gpu_price"}, {"treasury_10y"},
       {"natural_gas_price", "crude_oil_price"}, {"fed_funds_rate"} >>

AllDates == UNION {DatesOf(Sources[i]) : i \in 1..4}

(* C15: the table prepare_time_series_data returns has exactly one row per
   calendar date that occurs in at least one non-empty source, no other row,
   the rows in ascending date order; its columns are date and those of the
   non-empty sources, so an empty source adds no row and no column. *)
C15_OneRowPerDateOfAnySource ==
    time_series # None =>
        LET rows == time_series.rows
        IN  /\ {rows[k].date : k \in DOMAIN rows} = AllDates
            /\ Len(rows) = Cardinality(AllDates)
            /\ \A k \in 1..(Len(rows) - 1) : rows[k].date < rows[k + 1].date
            /\ \A k \in DOMAIN rows :
                  DOMAIN rows[k] =
                      {"date"} \cup UNION {SourceColumns[i] : i \in {j \in 1..4 : Sources[j] # <<>>}}

C15_Witness ==
    /\ time_series # None
    /\ Len(time_series.rows) = 4
    /\ DatesOf(gpu_pricing) = {7}
    /\ DatesOf(treasury_yields) = {6, 9}
    /\ DatesOf(energy_futures) = {8}
    /\ interest_rates = <<>>
    /\ DOMAIN time_series.rows[1] =
          {"date", "avg_gpu_price", "treasury_10y", "natural_gas_price", "crude_oil_price"}

(* The column a source gives, and the source's own column it is the daily
   mean of *)
SourceOfColumn(c) ==
    CASE c = "avg_gpu_price" -> [table |-> gpu_pricing, field |-> "price"]
      [] c = "treasury_10y" -> [table |-> treasury_yields, field |-> "yield_10y"]
      [] c = "natural_gas_price" -> [table |-> energy_futures, field |-> "natural_gas_price"]
      [] c = "crude_oil_price" -> [table |-> energy_futures, field |-> "crude_oil_price"]
      [] c = "fed_funds_rate" -> [table |-> interest_rates, field |-> "fed_funds_rate"]

(* The mean of column c over the rows its source holds for date d *)
DailyMean(c, d) ==
    LET src == SourceOfColumn(c)
        on(r) == r.timestamp \div 24 = d
        group == SelectSeq(src.table, on)
    IN  sum([k \in DOMAIN group |-> group[k][src.field]]) \div Len(group)

KnownDates(c) == DatesOf(SourceOfColumn(c).table)

(* C16: after the forward fill, a cell whose column has a known value on its
   own date keeps it, a cell that was missing holds the most recent earlier
   known value of its column, and a cell before the column's first known
   value stays missing. *)
C16_ForwardFill ==
    time_series # None =>
        \A k \in DOMAIN time_series.rows :
            \A c \in DOMAIN time_series.rows[k] \ {"date"} :
                LET d == time_series.rows[k].date
                    earlier == {e \in KnownDates(c) : e <= d}
                    last == CHOOSE e \in earlier : \A f \in earlier : f <= e
                IN  time_series.rows[k][c] =
                        IF earlier = {} THEN <<>> ELSE <<DailyMean(c, last)>>

C16_Witness ==
    /\ time_series # None
    /\ Len(time_series.rows) = 4
    /\ DatesOf(treasury_yields) = {6, 9}
    /\ [k \in 1..4 |-> time_series.rows[k].treasury_10y] = << <<1>>, <<1>>, <<1>>, <<2>> >>
    /\ DatesOf(gpu_pricing) = {7, 8}
    /\ [k \in 1..4 |-> time_series.rows[k].avg_gpu_price] = << <<>>, <<2>>, <<1>>, <<1>> >>

(* Rows of the unified table where the GPU price and column c are both known *)
ValidPairs(c) ==
    {k \in DOMAIN time_series.rows :
        time_series.rows[k].avg_gpu_price # NaN /\ time_series.rows[k][c] # NaN}

(* C17: a column with fewer than 3 rows where it and the GPU price are both
   known is reported with correlation exactly 0.0 and p-value exactly 1.0,
   hence very_weak and not_significant. *)
C17_FewerThanThreePairsIsSentinel ==
    gpu_correlations # None =>
        \A k \in DOMAIN gpu_correlations.rows :
            LET e == gpu_correlations.rows[k]
            IN  Cardinality(ValidPairs(e.metric)) < 3 =>
                    /\ e.correlation = Zero
                    /\ e.p_value = One
                    /\ e.strength = "very_weak"
                    /\ e.significance = "not_significant"

C17_Witness ==
    /\ gpu_correlations # None
    /\ \E k \in DOMAIN gpu_correlations.rows :
          /\ Cardinality(ValidPairs(gpu_correlations.rows[k].metric)) = 2
          /\ gpu_correlations.rows[k].correlation = Zero
          /\ gpu_correlations.rows[k].p_value = One
    /\ \E k \in DOMAIN gpu_correlations.rows :
          /\ Cardinality(ValidPairs(gpu_correlations.rows[k].metric)) = 3
          /\ ~gpu_correlations.rows[k].correlation.nan
          /\ gpu_correlations.rows[k].correlation.sign = -1

(* C18: the strength of a coefficient depends on its magnitude alone, with
   inclusive lower boundaries: at least 0.7 is strong, at least 0.3 moderate,
   at least 0.1 weak, anything below very_weak. *)
C18_StrengthByMagnitude ==
    strength # "none" =>
        LET a == correlation.num
            q == correlation.den
        IN  /\ 10 * a >= 7 * q => strength = "strong"
            /\ 10 * a >= 3 * q /\ 10 * a < 7 * q => strength = "moderate"
            /\ 10 * a >= q /\ 10 * a < 3 * q => strength = "weak"
            /\ 10 * a < q => strength = "very_weak"
            /\ strength \in {"strong", "moderate", "weak", "very_weak"}

C18_Witness ==
    /\ strength = "strong"
    /\ correlation.sign = -1
    /\ 10 * correlation.num = 7 * correlation.den

(* The values of a float between lo and hi, both whole numbers *)
Within(x, lo, hi) ==
    /\ ~x.nan
    /\ x.sign * x.num >= lo * x.den
    /\ x.sign * x.num <= hi * x.den

(* C19: every result computed for the store has a defined correlation
   coefficient in [-1, 1] and a defined p-value in [0, 1]. *)
C19_CoefficientAndPValueDefined ==
    gpu_correlations # None =>
        \A k \in DOMAIN gpu_correlations.rows :
            /\ Within(gpu_correlations.rows[k].correlation, -1, 1)
            /\ Within(gpu_correlations.rows[k].p_value, 0, 1)

(* The metrics the last call correlated with the GPU price *)
Correlated == IF gpu_correlations = None THEN <<>> ELSE gpu_correlations.rows

(* C20: every call of analyze_profitability_indicators returns having
   appended one row per correlated metric, with metric_1 avg_gpu_price and
   the period of the call: after n calls over unchanged stores with k
   correlated metrics the log holds n * k rows. *)
C20_EveryCallAppendsOneRowPerMetric ==
    /\ ac # "raised"
    /\ Len(correlation_analysis) = Len(analyses) * Len(Correlated)
    /\ \A i \in DOMAIN correlation_analysis :
          LET n == ((i - 1) \div Len(Correlated)) + 1
              k == ((i - 1) % Len(Correlated)) + 1
          IN  /\ correlation_analysis[i].metric_1 = "avg_gpu_price"
              /\ correlation_analysis[i].metric_2 = Correlated[k].metric
              /\ correlation_analysis[i].analysis_period_days = analyses[n]

(* The numeric columns of the unified table *)
NumericOf(frame) == columns(frame.rows) \ {"date"}

(* C21: the correlation matrix holds an entry for every ordered pair of
   distinct numeric columns, the entry of (A, B) equal to that of (B, A), and
   none for a pair (A, A); with fewer than two numeric columns it is empty. *)
C21_SymmetricWithoutDiagonal ==
    correlations # None =>
        LET m == correlations.data
            numeric == NumericOf(time_series)
        IN  IF Cardinality(numeric) < 2 THEN DOMAIN m = {}
            ELSE /\ DOMAIN m = numeric
                 /\ \A a \in numeric :
                       /\ DOMAIN m[a] = numeric \ {a}
                       /\ \A b \in numeric \ {a} : m[a][b] = m[b][a]

C21_Witness ==
    /\ correlations # None
    /\ Cardinality(NumericOf(time_series)) = 5
    /\ ~correlations.data["treasury_10y"]["avg_gpu_price"].nan
    /\ correlations.data["treasury_10y"]["avg_gpu_price"].sign = -1
    /\ correlations.data["natural_gas_price"]["crude_oil_price"].nan

(* The direction and strength insights among the insights *)
InsightsOn(metric) ==
    {key_insights.rows[k] : k \in {i \in DOMAIN key_insights.rows :
        /\ key_insights.rows[i].about = "correlated"
        /\ key_insights.rows[i].metric = metric}}

(* C22: a metric gets a direction and strength insight exactly when its
   strength is moderate or strong and its p-value is below 0.05, one such
   insight then, naming its strength, and positive exactly when its
   correlation is above 0. *)
C22_InsightIffStrongEnoughAndSignificant ==
    key_insights # None =>
        \A k \in DOMAIN gpu_correlations.rows :
            LET e == gpu_correlations.rows[k]
                a == fabs(e.correlation)
                moderate_or_strong == ~a.nan /\ 10 * a.num >= 3 * a.den
                significant == ~e.p_value.nan /\ 100 * e.p_value.num < 5 * e.p_value.den
            IN  IF moderate_or_strong /\ significant
                THEN /\ Cardinality(InsightsOn(e.metric)) = 1
                     /\ \A i \in InsightsOn(e.metric) :
                           /\ i.strength = e.strength
                           /\ i.direction = "positively" <=> e.correlation.sign = 1
                           /\ i.direction \in {"positively", "negatively"}
                ELSE InsightsOn(e.metric) = {}

C22_Witness ==
    /\ key_insights # None
    /\ \E k \in DOMAIN key_insights.rows :
          /\ key_insights.rows[k].about = "correlated"
          /\ key_insights.rows[k].metric = "treasury_10y"
          /\ key_insights.rows[k].direction = "negatively"
    /\ \E k \in DOMAIN gpu_correlations.rows :
          /\ gpu_correlations.rows[k].metric = "natural_gas_price"
          /\ gpu_correlations.rows[k].strength = "strong"
          /\ gpu_correlations.rows[k].significance = "not_significant"
    /\ InsightsOn("natural_gas_price") = {}

Flagged(flag) == \E k \in DOMAIN risk_factors.rows : risk_factors.rows[k] = flag

(* The primary correlation of a metric is above h hundredths: as it is when
   signed, in magnitude otherwise *)
Above(metric, h, signed) ==
    \E k \in DOMAIN gpu_correlations.rows :
        LET e == gpu_correlations.rows[k]
            r == e.correlation
        IN  /\ e.metric = metric
            /\ ~r.nan
            /\ signed => r.sign = 1
            /\ IF r.root THEN 10000 * r.num > h * h * r.den ELSE 100 * r.num > h * r.den

(* C23: each correlation-based risk flag depends on its own metric alone: the
   natural-gas flag iff the natural-gas correlation is above 0.3, the
   fed-funds flag iff the magnitude of the fed-funds correlation is above 0.2,
   the treasury flag iff the treasury correlation is above 0.3; each at most
   once. *)
C23_RiskFlagsByOwnThreshold ==
    risk_factors # None =>
        /\ Flagged("HIGH RISK: natural gas") <=> Above("natural_gas_price", 30, TRUE)
        /\ Flagged("MEDIUM RISK: interest rate") <=> Above("fed_funds_rate", 20, FALSE)
        /\ Flagged("MEDIUM RISK: treasury yields") <=> Above("treasury_10y", 30, TRUE)
        /\ \A i, j \in DOMAIN risk_factors.rows :
              risk_factors.rows[i] = risk_factors.rows[j] => i = j

C23_Witness ==
    /\ risk_factors # None
    /\ risk_factors.rows = <<"MEDIUM RISK: interest rate">>
    /\ \E k \in DOMAIN gpu_correlations.rows :
          /\ gpu_correlations.rows[k].metric = "natural_gas_price"
          /\ gpu_correlations.rows[k].correlation = Hundredths(-80)
    /\ \E k \in DOMAIN gpu_correlations.rows :
          /\ gpu_correlations.rows[k].metric = "treasury_10y"
          /\ gpu_correlations.rows[k].correlation = Hundredths(-80)
    /\ \E k \in DOMAIN gpu_correlations.rows :
          /\ gpu_correlations.rows[k].metric = "fed_funds_rate"
          /\ gpu_correlations.rows[k].correlation = Hundredths(-31)

(* C24: no two registered rules have the same name. *)
C24_RuleNamesUnique ==
    \A i, j \in DOMAIN rules : rules[i].name = rules[j].name => i = j

(* Rule i has its last_triggered written by the step *)
Stamped(i) == i \in DOMAIN rules' /\ rules'[i].last_triggered # rules[i].last_triggered

(* C25: last_triggered of a rule is None until the rule has fired; it is
   written only by the pass of check_all_rules over that rule, when that pass
   put an alert of the rule on the list, and the loop then moves on, so that
   a cycle writes it at most once per rule and leaves the other rules'
   alone. *)
C25_LastTriggeredOwnedByFiringRule ==
    /\ [](\A i \in DOMAIN rules :
            rules[i].last_triggered # NoneTime =>
                \E k \in DOMAIN alerts : alerts[k].alert_type = rules[i].name)
    /\ [][\A i \in DOMAIN rules :
            Stamped(i) =>
                /\ pc = "check"
                /\ idx = i
                /\ idx' > i
                /\ rules'[i].last_triggered = now
                /\ triggered_alerts' # triggered_alerts
                /\ triggered_alerts'[Len(triggered_alerts')].rule_name = rules[i].name
                /\ \A j \in DOMAIN rules \ {i} : ~Stamped(j)]_vars
    /\ [][idx' < idx => pc # "check" /\ cycles' = cycles + 1]_vars

C25_Witness ==
    /\ pc = "returned"
    /\ Len(rules) = 8
    /\ rules[1].last_triggered = now
    /\ \A i \in 2..8 : rules[i].last_triggered = NoneTime
    /\ \E k \in DOMAIN calls : calls[k].rule = 8 /\ non_empty(calls[k].result)

(* The rows of a table that pass a filter, and among them the ones that no
   other one is newer than: only one of these can be first in a frame that
   is ordered newest first *)
Newest(table, passes(_), at(_)) ==
    {r \in Range(table) :
        /\ passes(r)
        /\ \A q \in Range(table) : passes(q) => at(q) <= at(r)}

FreshFilings ==
    Newest(sec_filings,
           LAMBDA r : r.filing_date >= now - 24 /\ r.company = "CoreWeave",
           LAMBDA r : r.filing_date)

ConstraintNews ==
    Newest(hardware_news,
           LAMBDA r : r.timestamp >= now - 24 /\ r.supply_status \in {"shortage", "delayed"},
           LAMBDA r : r.timestamp)

HighImpactEvents ==
    Newest(energy_market_events,
           LAMBDA r : r.timestamp >= now - 24 /\ r.impact_level = "high",
           LAMBDA r : r.timestamp)

(* C26: new_sec_filing, gpu_supply_constraint and energy_market_event each
   trigger exactly when the last day holds a row that passes the rule's
   filter (a CoreWeave filing; a news row whose supply_status is shortage or
   delayed; a high-impact event), and the payload is that of the row the
   store returns first, with regions "Unknown" when the event's
   affected_regions is empty. *)
C26_PresenceRules ==
    /\ Len(calls) >= 5 =>
          LET res == calls[5].result
          IN  /\ Fired(res) <=> FreshFilings # {}
              /\ Fired(res) =>
                    \E r \in FreshFilings :
                        res.data = [filing_type |-> r.filing_type,
                                    company |-> r.company,
                                    date |-> r.filing_date \div 24]
    /\ Len(calls) >= 6 =>
          LET res == calls[6].result
          IN  /\ Fired(res) <=> ConstraintNews # {}
              /\ Fired(res) =>
                    \E r \in ConstraintNews :
                        res.data = [hardware_type |-> r.hardware_type,
                                    status |-> r.supply_status]
    /\ Len(calls) >= 7 =>
          LET res == calls[7].result
          IN  /\ Fired(res) <=> HighImpactEvents # {}
              /\ Fired(res) =>
                    \E r \in HighImpactEvents :
                        res.data = [event_type |-> r.event_type,
                                    impact_level |-> "high",
                                    regions |-> IF r.affected_regions = "" THEN "Unknown"
                                                ELSE r.affected_regions]

C26_Witness ==
    /\ pc = "returned"
    /\ Len(energy_market_events) = 2
    /\ energy_market_events[1].affected_regions = "Texas"
    /\ energy_market_events[1].impact_level = "high"
    /\ energy_market_events[1].timestamp = now - 12
    /\ energy_market_events[2].timestamp = now
    /\ Fired(calls[7].result)
    /\ calls[7].result.data.regions = "Unknown"
    /\ EventsOf("energy_market_event") # <<>>

(* A sink has been invoked by the running send_notifications *)
SinkInvoked == notified # <<>>

(* Every rule has been evaluated and check_all_rules has returned *)
SinksAfterRules == SinkInvoked => pc = "returned" /\ Len(calls) = Len(rules)

(* Every sink was handed the list check_all_rules returned *)
SinksGetReturnedList ==
    \A k \in DOMAIN notified : notified[k].alerts = triggered_alerts

(* Every alert of the list has its row in alerts *)
TriggeredPersisted ==
    \A j \in DOMAIN triggered_alerts :
        \E a \in DOMAIN alerts :
            /\ alerts[a].alert_type = triggered_alerts[j].rule_name
            /\ alerts[a].message = triggered_alerts[j].message
            /\ alerts[a].severity = triggered_alerts[j].severity

(* The four collection steps are over, each with its status in results *)
CollectionOver ==
    /\ gathering = "none"
    /\ Len(cycle_results) >= Len(collection_tasks)
    /\ \A k \in DOMAIN collection_tasks :
          /\ cycle_results[k].name = collection_tasks[k].name
          /\ cycle_results[k].status \in {"success", "error"}

RulesAfterCollection == pc = "check" => fc = "monitoring" /\ CollectionOver

(* A cycle that is over has run the rules, whatever the collection gave *)
RulesWhateverCollected ==
    fc \in {"returned", "raised"} =>
        /\ CollectionOver
        /\ pc \in {"returned", "raised"}
        /\ cycle_results[Len(cycle_results)].name = "alerts"

(* C27: within a cycle no sink is invoked before every rule has been
   evaluated and every triggered alert persisted, the sinks receive exactly
   the list check_all_rules returned, and rule evaluation starts only after
   the four collection steps are over and runs whether they succeeded or
   failed. *)
C27_StoreThenRulesThenSinks ==
    /\ SinksAfterRules
    /\ SinksGetReturnedList
    /\ (SinkInvoked => TriggeredPersisted)
    /\ RulesAfterCollection
    /\ RulesWhateverCollected

(* The GPU pricing source has no rows in the window of the last analysis *)
NoGpuRows == select_recent(gpu_pricing, analyses[Len(analyses)]) = {<<>>}

(* An insight or a risk flag that is made of a correlation: every one but
   the volatility flag, which is made of the prices alone *)
CorrelationBased ==
    {key_insights.rows[k] : k \in DOMAIN key_insights.rows}
    \cup ({risk_factors.rows[k] : k \in DOMAIN risk_factors.rows}
          \ {"MEDIUM RISK: GPU price volatility"})

(* C28: without GPU pricing rows in the window analyze_gpu_price_correlations
   returns an empty result, and analyze_profitability_indicators writes no
   correlation row, emits no correlation-based insight or risk flag and does
   not raise; when every source is empty it returns the "No data available"
   error marker and writes nothing. *)
C28_NoGpuRowsNoSignal ==
    /\ (analyses # <<>> /\ NoGpuRows) =>
          /\ ac = "returned"
          /\ correlation_analysis = <<>>
          /\ time_series.rows # <<>> =>
                /\ gpu_correlations = List(<<>>)
                /\ CorrelationBased = {}
    /\ (analyses # <<>> /\ time_series.rows = <<>>) =>
          /\ ac = "returned"
          /\ data_period = Dict([error |-> "No data available for analysis"])
          /\ correlation_analysis = <<>>
          /\ key_insights = None
          /\ risk_factors = None

C28_Witness ==
    /\ Len(analyses) = 1
    /\ gpu_pricing = <<>>
    /\ Len(treasury_yields) >= 3
    /\ energy_futures # <<>>
    /\ interest_rates # <<>>
    /\ ac = "returned"
    /\ gpu_correlations = List(<<>>)
    /\ key_insights = List(<<>>)
    /\ data_period.data.total_observations = 4
    /\ correlations.data # <<>>

(* The last rows of the table correlation_analysis, as many as rows has *)
WrittenBack(rows) ==
    /\ Len(correlation_analysis) >= Len(rows)
    /\ SubSeq(correlation_analysis, Len(correlation_analysis) - Len(rows) + 1,
              Len(correlation_analysis)) = rows

(* Every part of the analysis returned last is what the table data gives *)
DerivedFrom(data) ==
    LET days_back == analyses[Len(analyses)]
    IN  /\ data_period = Dict(data_period_of(data, days_back))
        /\ correlations = Dict(calculate_correlations(data))
        /\ \E pv_of \in PValuesOf :
              LET out == indicators(data, data, days_back, pv_of, <<>>)
              IN  /\ gpu_correlations = List(out.gpu_correlations)
                  /\ key_insights = List(out.key_insights)
                  /\ risk_factors = List(out.risk_factors)
                  /\ WrittenBack(out.stored.log)

(* C29: data_period, the correlation matrix, the primary GPU correlations,
   the insights, the risk flags and the rows written back of one returned
   analysis are derived from one and the same snapshot of the store, also
   when indicator rows are written to the store during the call. *)
C29_OneSnapshot ==
    (ac = "returned" /\ analyses # <<>> /\ snapshot.rows # <<>>) =>
        DerivedFrom(snapshot.rows) \/ DerivedFrom(time_series.rows)

(* A pass of the loop starts only from the entry or from a sleep that
   followed a finished cycle: the interval after a return, five minutes
   after an exception *)
OneAfterAnother ==
    [][loops' = loops + 1 =>
          \/ mm = "idle" /\ loops = 0
          \/ /\ mm = "sleep"
             /\ fc = "returned" /\ sleeping = 60 * IntervalMinutes
          \/ /\ mm = "sleep"
             /\ fc = "raised" /\ sleeping = RetrySeconds]_vars

(* While a cycle is under way the loop awaits it *)
AwaitsCycle == fc \in {"collecting", "monitoring"} => mm \in {"cycle", "stopped"}

(* Nothing but the interrupt ends the loop, and a cycle that is over, by a
   return or an exception, is followed by the sleep *)
EndsOnInterruptOnly ==
    [][/\ (mm # "stopped" /\ mm' = "stopped") => KeyboardInterrupt
       /\ (mm = "cycle" /\ mm' # "cycle") =>
             \/ KeyboardInterrupt
             \/ fc \in {"returned", "raised"} /\ mm' = "sleep"]_vars

(* Unless the user interrupts, every pass below the bound is followed by
   another *)
AnotherCycle ==
    \A n \in 1..(MaxLoops - 1) :
        (mm = "cycle" /\ loops = n) ~> (loops = n + 1 \/ mm = "stopped")

(* C30: in continuous mode a new collection cycle starts only after the
   previous one has finished and the interval wait has elapsed; an exception
   escaping a cycle does not end the loop but is followed by a 5-minute wait
   and another cycle, so that under fairness a further cycle always
   eventually starts; only a user interrupt ends the loop. *)
C30_CyclesOneAfterAnother ==
    /\ OneAfterAnother
    /\ []AwaitsCycle
    /\ EndsOnInterruptOnly
    /\ AnotherCycle

C30_Witness ==
    /\ loops = 2
    /\ mm = "cycle"
    /\ fc = "returned"
    /\ cycle_results[3].status = "success"
    /\ Len(sec_filings) = 2
    /\ Len(alerts) = 2
    /\ cycles = 2
====
